---- MODULE Spec2Model ----
(***************************************************************************)
(* Model of the Nextcloud Salt formula: the execution module               *)
(* (_modules/nextcloud_server.py), which wraps the occ command line tool,  *)
(* and the state module (_states/nextcloud_server.py), which converges an  *)
(* installation towards a desired state.                                   *)
(*                                                                         *)
(* inst is the managed installation (all durable state lives there), last  *)
(* is the record of the most recent call: its arguments, the installation  *)
(* it started from, every external invocation it issued and what it        *)
(* returned or raised.                                                     *)
(***************************************************************************)
EXTENDS Integers, Sequences, FiniteSets, TLC

VARIABLES inst, last

vars == <<inst, last>>

(***************************************************************************)
(* Bounds of the model.                                                    *)
(***************************************************************************)
\* the failing invocation of a call is one of its first MaxFail ones (0: none)
MaxFail == 4
\* number of ordinary user accounts
NumUsers == 1
\* number of groups
NumGroups == 1

(***************************************************************************)
(* Values: JSON / Python values as tagged nodes.  t is the type, n the     *)
(* number (in tenths, so 0.5 is 5 and the integer 1 is 10), s the text of  *)
(* a string, d the items of a dictionary.                                  *)
(***************************************************************************)
Leaf(t, n, s) == [t |-> t, n |-> n, s |-> s, d |-> <<>>]
PyStr(s) == Leaf("str", 0, s)
PyInt(k) == Leaf("int", 10 * k, "")
PyBool(b) == Leaf("bool", IF b THEN 10 ELSE 0, "")
PyFloat(tenths) == Leaf("float", tenths, "")
PyNone == Leaf("null", 0, "")
PyList(k) == Leaf("list", k, "")
PyDict(f) == [t |-> "dict", n |-> 0, s |-> "", d |-> f]
EmptyDict == PyDict(<<>>)
\* an absent key / an absent value (Python has no value here)
Missing == Leaf("missing", 0, "")

IsDict(x) == x.t = "dict"
IsNum(x) == x.t \in {"bool", "int", "float"}

\* Python's ==: bool, int and float compare by numeric value
RECURSIVE PyEq(_, _)
PyEq(a, b) ==
    IF IsNum(a) /\ IsNum(b) THEN a.n = b.n
    ELSE IF a.t # b.t THEN FALSE
    ELSE IF IsDict(a)
         THEN /\ DOMAIN a.d = DOMAIN b.d
              /\ \A k \in DOMAIN a.d : PyEq(a.d[k], b.d[k])
    ELSE a.n = b.n /\ a.s = b.s

\* Python's str(value): a string stays itself, a number becomes its rendering
StrOf(x) == IF x.t = "str" THEN x ELSE Leaf("str", x.n, x.t)

\* the value at a path of keys of a tree, Missing when a key is absent
RECURSIVE GetPath(_, _)
GetPath(tree, path) ==
    IF path = <<>> THEN tree
    ELSE IF ~IsDict(tree) \/ Head(path) \notin DOMAIN tree.d THEN Missing
    ELSE GetPath(tree.d[Head(path)], Tail(path))

\* the items f with key k bound to v
Put(f, k, v) == [x \in DOMAIN f \cup {k} |-> IF x = k THEN v ELSE f[x]]
\* the items f without key k
Drop(f, k) == [x \in DOMAIN f \ {k} |-> f[x]]

RECURSIVE SetPath(_, _, _)
SetPath(tree, path, v) ==
    IF path = <<>> THEN v
    ELSE LET base == IF IsDict(tree) THEN tree.d ELSE <<>>
             sub == IF Head(path) \in DOMAIN base THEN base[Head(path)] ELSE EmptyDict
         IN PyDict(Put(base, Head(path), SetPath(sub, Tail(path), v)))

RECURSIVE DelPath(_, _)
DelPath(tree, path) ==
    IF path = <<>> \/ ~IsDict(tree) \/ Head(path) \notin DOMAIN tree.d THEN tree
    ELSE IF Len(path) = 1 THEN PyDict(Drop(tree.d, Head(path)))
    ELSE PyDict(Put(tree.d, Head(path), DelPath(tree.d[Head(path)], Tail(path))))

(***************************************************************************)
(* Names.                                                                  *)
(***************************************************************************)
UserNames == <<"u1", "u2", "u3", "u4">>
GroupNames == <<"g1", "g2", "g3", "g4">>
Users == {UserNames[i] : i \in 1..NumUsers}
Groups == {GroupNames[i] : i \in 1..NumGroups}
Apps == {"a1"}
\* the member group_exists probes with
Sentinel == "le7s_hop3_n0_0ne_cr34t3s_a_user_l1ke_thi5"
AllUsers == Users \cup {Sentinel}

\* versions are major.minor.patch
NoVersion == <<>>
VersionLess(a, b) ==
    \/ a[1] < b[1]
    \/ a[1] = b[1] /\ a[2] < b[2]
    \/ a[1] = b[1] /\ a[2] = b[2] /\ a[3] < b[3]

(***************************************************************************)
(* The external tool.  An invocation is a record of the sub-command, its   *)
(* positional arguments, its (parameter, value) pairs, its flags and its   *)
(* stdin; OccTool is what the tool answers and what it does to the         *)
(* installation.                                                           *)
(***************************************************************************)
Invocation(cmd, args, params, flags, kw) ==
    [cmd |-> cmd, args |-> args, params |-> params, flags |-> flags,
     stdin |-> kw.stdin, env |-> kw.env, cwd |-> kw.webroot, runas |-> kw.webuser,
     line |-> <<>>]

\* the value of the first pair named p, Missing when there is none
ParamVal(params, p) ==
    IF \E i \in 1..Len(params) : params[i][1] = p
    THEN params[CHOOSE i \in 1..Len(params) :
                    /\ params[i][1] = p
                    /\ \A j \in 1..(i - 1) : params[j][1] # p][2]
    ELSE Missing
ParamVals(params, p) == {params[i][2].s : i \in {j \in 1..Len(params) : params[j][1] = p}}
HasFlag(flags, f) == \E i \in 1..Len(flags) : flags[i] = f

Answer(rc, stdout, parsed, i) == [rc |-> rc, stdout |-> stdout, parsed |-> parsed, inst |-> i]

RECURSIVE HasFloat(_)
HasFloat(x) ==
    IF IsDict(x) THEN \E k \in DOMAIN x.d : HasFloat(x.d[k]) ELSE x.t = "float"

\* config:import refused floats before this release (nextcloud/server#32468)
FixedVersion == <<24, 0, 3>>

\* config:import sets every imported system key and every imported app key
ImportMerge(cur, new) ==
    LET scopeOf(t, k) == IF IsDict(t) /\ k \in DOMAIN t.d THEN t.d[k] ELSE EmptyDict
        curSys == scopeOf(cur, "system")
        newSys == scopeOf(new, "system")
        curApps == scopeOf(cur, "apps")
        newApps == scopeOf(new, "apps")
        sys == PyDict([k \in DOMAIN curSys.d \cup DOMAIN newSys.d |->
                        IF k \in DOMAIN newSys.d THEN newSys.d[k] ELSE curSys.d[k]])
        app(a) == LET c == scopeOf(curApps, a)
                      n == scopeOf(newApps, a)
                  IN PyDict([k \in DOMAIN c.d \cup DOMAIN n.d |->
                               IF k \in DOMAIN n.d THEN n.d[k] ELSE c.d[k]])
        apps == PyDict([a \in DOMAIN curApps.d \cup DOMAIN newApps.d |-> app(a)])
    IN PyDict([k \in {"system", "apps"} |-> IF k = "system" THEN sys ELSE apps])

\* the value config:system:set stores for --value v --type vtype; Missing when
\* the tool refuses the text for that type
CastValue(v, vtype) ==
    CASE vtype = "string" -> v
      [] vtype = "integer" -> IF v.s = "int" THEN Leaf("int", v.n, "") ELSE Missing
      [] vtype = "double" -> IF v.s \in {"int", "float"} THEN Leaf("float", v.n, "") ELSE Missing
      [] vtype = "boolean" -> IF v.s = "bool" THEN Leaf("bool", v.n, "") ELSE Missing
      [] OTHER -> Missing

\* what update:check prints, as the patterns of update_check read it: the
\* core release and the app updates on offer and the number of the line
\* "n updates available".  report tells how many app updates there are
\* and whether that line is right, wrong or missing.
UpdateReport(i) ==
    LET system == IF i.update = NoVersion THEN <<>> ELSE <<i.update>>
        apps == [k \in 1..i.report.apps |-> "a1"]
        n == Len(system) + Len(apps)
    IN [uptodate |-> n = 0, system |-> system, apps |-> apps,
        count |-> IF n = 0 \/ i.report.count = "missing" THEN <<>>
                  ELSE IF i.report.count = "wrong" THEN <<n + 1>>
                  ELSE <<n>>]

GroupsOnPage(i, limit, offset) ==
    {g \in i.gexists : offset <= i.gpos[g] /\ i.gpos[g] < offset + limit}

\* what the tool does for one invocation: exit code, stdout, parsed stdout
\* (when the sub-command prints JSON) and the installation afterwards.
\* file is the content of the file a config:import argument names, and
\* checkOk what the consistency check finds.
OccTool(i, inv, file, checkOk) ==
    LET a1 == IF Len(inv.args) >= 1 THEN inv.args[1] ELSE ""
        a2 == IF Len(inv.args) >= 2 THEN inv.args[2] ELSE ""
        ok(j) == Answer(0, "", Missing, j)
        err(msg) == Answer(1, msg, Missing, i)
    IN CASE inv.cmd = "status" ->
              Answer(0, "", [installed |-> i.installed], i)
         [] inv.cmd = "--version" ->
              Answer(0, <<"Nextcloud", i.version>>, Missing, i)
         [] inv.cmd = "php" ->
              Answer(0, i.version, Missing, i)
         [] inv.cmd = "check" ->
              IF checkOk THEN ok(i) ELSE err("check failed")
         [] inv.cmd = "maintenance:install" ->
              IF i.installed THEN err("already installed")
              ELSE ok([i EXCEPT !.installed = TRUE])
         [] inv.cmd = "update:check" ->
              Answer(0, UpdateReport(i), Missing, i)
         [] inv.cmd = "updater" ->
              IF i.update = NoVersion THEN ok(i)
              ELSE ok([i EXCEPT !.version = i.update, !.update = NoVersion])
         [] inv.cmd = "app:list" ->
              Answer(0, "", [enabled |-> {a \in Apps : i.apps[a].st = "enabled"},
                             disabled |-> {a \in Apps : i.apps[a].st = "disabled"}], i)
         [] inv.cmd = "app:remove" ->
              IF a1 \notin Apps \/ i.apps[a1].st = "absent" THEN err("not installed")
              ELSE ok([i EXCEPT !.apps[a1] = [st |-> "absent", groups |-> {}]])
         [] inv.cmd = "app:install" ->
              IF a1 \notin Apps \/ i.apps[a1].st # "absent" THEN err("already installed")
              ELSE ok([i EXCEPT !.apps[a1] =
                         [st |-> IF HasFlag(inv.flags, "keep-disabled")
                                 THEN "disabled" ELSE "enabled",
                          groups |-> {}]])
         [] inv.cmd = "app:enable" ->
              IF a1 \notin Apps \/ i.apps[a1].st = "absent" THEN err("not installed")
              ELSE IF i.apps[a1].st = "enabled" THEN ok(i)
              ELSE ok([i EXCEPT !.apps[a1] =
                         [st |-> "enabled", groups |-> ParamVals(inv.params, "groups")]])
         [] inv.cmd = "app:disable" ->
              IF a1 \notin Apps \/ i.apps[a1].st # "enabled" THEN ok(i)
              ELSE ok([i EXCEPT !.apps[a1] = [st |-> "disabled", groups |-> {}]])
         [] inv.cmd = "config:app:get" ->
              IF a1 \notin Apps \/ i.apps[a1].st = "absent" \/ a2 # "enabled"
              THEN err("not set")
              ELSE Answer(0, "", [yes |-> i.apps[a1].st = "enabled" /\ i.apps[a1].groups = {},
                                  no |-> i.apps[a1].st = "disabled",
                                  groups |-> i.apps[a1].groups], i)
         [] inv.cmd = "config:system:get" ->
              LET v == GetPath(i.config, <<"system">> \o inv.args)
              IN IF v.t = "missing" THEN err("") ELSE Answer(0, "", v, i)
         [] inv.cmd = "config:system:set" ->
              LET v == CastValue(ParamVal(inv.params, "value"), ParamVal(inv.params, "type").s)
              IN IF v.t = "missing" THEN err("invalid value")
                 ELSE ok([i EXCEPT !.config = SetPath(@, <<"system">> \o inv.args, v)])
         [] inv.cmd = "config:system:delete" ->
              ok([i EXCEPT !.config = DelPath(@, <<"system">> \o inv.args)])
         [] inv.cmd = "config:app:set" ->
              ok([i EXCEPT !.config =
                     SetPath(@, <<"apps">> \o inv.args, ParamVal(inv.params, "value"))])
         [] inv.cmd = "config:list" ->
              Answer(0, "", i.config, i)
         [] inv.cmd = "config:import" ->
              LET new == IF inv.args = <<>> THEN inv.stdin ELSE file
              IN IF \/ ~IsDict(new)
                    \/ DOMAIN new.d \ {"system", "apps"} # {}
                    \/ HasFloat(new) /\ VersionLess(i.version, FixedVersion)
                 THEN err("invalid import")
                 ELSE ok([i EXCEPT !.config = ImportMerge(@, new)])
         [] inv.cmd = "group:add" ->
              IF a1 \notin Groups \/ a1 \in i.gexists THEN err("group exists")
              ELSE ok([i EXCEPT !.gexists = @ \cup {a1}, !.members[a1] = {}])
         [] inv.cmd = "group:delete" ->
              IF a1 \notin i.gexists THEN err("group not found")
              ELSE ok([i EXCEPT !.gexists = @ \ {a1}, !.members[a1] = {}])
         [] inv.cmd = "group:adduser" ->
              IF a1 \notin i.gexists THEN err("group not found")
              ELSE IF a2 \notin AllUsers \/ i.users[a2] = "absent" THEN err("user not found")
              ELSE ok([i EXCEPT !.members[a1] = @ \cup {a2}])
         [] inv.cmd = "group:removeuser" ->
              IF a1 \notin i.gexists THEN err("group not found")
              ELSE IF a2 \notin AllUsers \/ i.users[a2] = "absent" THEN err("user not found")
              ELSE ok([i EXCEPT !.members[a1] = @ \ {a2}])
         [] inv.cmd = "group:list" ->
              LET page == GroupsOnPage(i, ParamVal(inv.params, "limit").n \div 10,
                                       ParamVal(inv.params, "offset").n \div 10)
              IN Answer(0, "", [g \in page |-> i.members[g]], i)
         [] inv.cmd = "user:info" ->
              IF a1 \notin AllUsers \/ i.users[a1] = "absent" THEN err("user not found")
              ELSE Answer(0, "", [enabled |-> i.users[a1] = "enabled"], i)
         [] inv.cmd = "user:add" ->
              IF a1 \notin AllUsers \/ i.users[a1] # "absent" THEN err("user exists")
              ELSE ok([i EXCEPT !.users[a1] = "enabled"])
         [] inv.cmd = "user:delete" ->
              IF a1 \notin AllUsers \/ i.users[a1] = "absent" THEN err("user not found")
              ELSE ok([i EXCEPT !.users[a1] = "absent",
                                !.members = [g \in DOMAIN @ |-> @[g] \ {a1}]])
         [] inv.cmd = "user:enable" ->
              IF a1 \notin AllUsers \/ i.users[a1] = "absent" THEN err("user not found")
              ELSE ok([i EXCEPT !.users[a1] = "enabled"])
         [] inv.cmd = "user:disable" ->
              IF a1 \notin AllUsers \/ i.users[a1] = "absent" THEN err("user not found")
              ELSE ok([i EXCEPT !.users[a1] = "disabled"])
         [] inv.cmd = "user:resetpassword" ->
              IF a1 \notin AllUsers \/ i.users[a1] = "absent" THEN err("user not found")
              ELSE ok(i)
         [] inv.cmd = "user:add-app-password" ->
              IF a1 \notin AllUsers \/ i.users[a1] = "absent" THEN err("user not found")
              ELSE Answer(0, <<"app password:", "token">>, Missing, i)
         [] inv.cmd = "db:convert-type" ->
              IF inv.stdin.t # "str" THEN err("no password")
              ELSE ok([i EXCEPT !.config = SetPath(@, <<"system", "dbtype">>, PyStr(a1))])
         [] inv.cmd = "files:repair-tree" ->
              IF HasFlag(inv.flags, "dry-run") THEN ok(i) ELSE ok([i EXCEPT !.tree = "sound"])
         [] inv.cmd = "preview:repair" ->
              ok(i)
         [] inv.cmd = "log:manage" ->
              ok(i)
         [] OTHER -> err("unknown command")

(***************************************************************************)
(* The process invoker.  A call runs in a context: the installation, the   *)
(* invocations issued so far (each with its exit code) and what this call  *)
(* meets in its environment: fail, the position of the invocation that     *)
(* exits non-zero for a reason of its own (0: none); checks, what the      *)
(* consistency check finds each time it runs; file, the content of the     *)
(* file a path argument names (Missing: no such file).                     *)
(***************************************************************************)
Context(i, env) == [inst |-> i, calls |-> <<>>, env |-> env]

Ret(ctx, val) == [ctx |-> ctx, val |-> val, exc |-> "none", msg |-> ""]
Raise(ctx, exc, msg) == [ctx |-> ctx, val |-> Missing, exc |-> exc, msg |-> msg]
Raised(r) == r.exc # "none"

NumCalls(calls, cmd) == Cardinality({k \in 1..Len(calls) : calls[k].cmd = cmd})

\* the module's defaults (web_root, web_user, ensure_apc_global)
web_root == "/var/www/nextcloud"
web_user == "www-data"
ensure_apc_global == TRUE

\* the keyword arguments of occ and their defaults; a target is the
\* (webroot, webuser) pair a caller hands down, "" standing for None
OccDefaults ==
    [json |-> TRUE, raise_error |-> TRUE, expect_error |-> FALSE,
     env |-> <<>>, stdin |-> Missing, webroot |-> "", webuser |-> "",
     ensure_apc |-> PyNone]
NoTarget == [webroot |-> "", webuser |-> ""]
Kw(tgt) == [OccDefaults EXCEPT !.webroot = tgt.webroot, !.webuser = tgt.webuser]

\* the only element of a set; {e(r) : r \in {call}} names the outcome of a
\* call r and computes e from it
The(S) == CHOOSE x \in S : TRUE

\* __salt__["cmd.run_all"]: runs the command and captures its outcome
cmd_run_all(ctx, inv) ==
    LET k == Len(ctx.calls) + 1
        nth == NumCalls(ctx.calls, "check") + 1
        checkOk == IF nth <= Len(ctx.env.checks) THEN ctx.env.checks[nth] ELSE TRUE
    IN The({[ctx |-> [ctx EXCEPT !.inst = ans.inst,
                                 !.calls = Append(@, [cmd |-> inv.cmd, args |-> inv.args,
                                                      params |-> inv.params,
                                                      flags |-> inv.flags,
                                                      stdin |-> inv.stdin, env |-> inv.env,
                                                      cwd |-> inv.cwd, runas |-> inv.runas,
                                                      line |-> inv.line,
                                                      rc |-> ans.rc, stdout |-> ans.stdout])],
             out |-> [retcode |-> ans.rc, stdout |-> ans.stdout, parsed |-> ans.parsed]] :
            ans \in {IF k = ctx.env.fail THEN Answer(1, "error", Missing, ctx.inst)
                     ELSE OccTool(ctx.inst, inv, ctx.env.file, checkOk)}})

\* a token of the command line: the text, the hyphens before it and whether
\* it stands between single quotes
Token(pre, text, quoted) == [pre |-> pre, text |-> text, quoted |-> quoted]
Word(s) == Token("", PyStr(s), FALSE)

\* the strings that start with a double quote, the flags that start with a
\* hyphen
DoubleQuoted == {"\"$NC_DB_PASS\"", "\"$NC_ADMIN_PASS\""}
Hyphened == {"-v", "-vv", "-vvv"}

\* a faulty FlagToken that emits the flag name as it is
FlagToken_bare(f) == Token("", PyStr(f), FALSE)

\* a faulty ValueToken that quotes nothing
ValueToken_bare(val) == Token("", StrOf(val), FALSE)

\* val_fmt.format(val)
ValueToken(val) == Token("", StrOf(val), val.t = "str" /\ val.s \notin DoubleQuoted)
FlagToken(f) == Token(IF f \in Hyphened THEN "" ELSE "--", PyStr(f), FALSE)

\* a faulty CommandLine that puts the arguments before the flags
CommandLine_args_first(command, arguments, parameters, flags, ensure_apc) ==
    <<Word("php")>>
      \o (IF ensure_apc THEN <<Word("--define"), Word("apc.enable_cli=1")>> ELSE <<>>)
      \o <<Word("./occ"), Word(command)>>
      \o [k \in 1..Len(arguments) |-> Word(arguments[k])]
      \o [k \in 1..Len(flags) |-> FlagToken(flags[k])]
      \o [k \in 1..(2 * Len(parameters)) |->
            IF k % 2 = 1 THEN Token("--", PyStr(parameters[(k + 1) \div 2][1]), FALSE)
            ELSE ValueToken(parameters[k \div 2][2])]
      \o <<Word("--")>>

\* the list cmd that occ joins with blanks
CommandLine(command, arguments, parameters, flags, ensure_apc) ==
    <<Word("php")>>
      \o (IF ensure_apc THEN <<Word("--define"), Word("apc.enable_cli=1")>> ELSE <<>>)
      \o <<Word("./occ"), Word(command)>>
      \o [k \in 1..Len(flags) |-> FlagToken(flags[k])]
      \o [k \in 1..(2 * Len(parameters)) |->
            IF k % 2 = 1 THEN Token("--", PyStr(parameters[(k + 1) \div 2][1]), FALSE)
            ELSE ValueToken(parameters[k \div 2][2])]
      \o <<Word("--")>>
      \o [k \in 1..Len(arguments) |-> Word(arguments[k])]

\* a faulty occ that takes raise_error for expect_error
occ_lenient(ctx, command, arguments, parameters, flags, kw) ==
    LET kwr == [kw EXCEPT !.webroot = IF @ = "" THEN web_root ELSE @,
                          !.webuser = IF @ = "" THEN web_user ELSE @]
        params == IF kw.json THEN Append(parameters, <<"output", PyStr("json")>>)
                  ELSE parameters
        flgs == Append(flags, "no-interaction")
        apc == IF kw.ensure_apc.t = "null" THEN ensure_apc_global ELSE kw.ensure_apc # PyBool(FALSE)
    IN The({IF kw.expect_error /\ ~kw.raise_error /\ r.out.retcode # 0
            THEN Raise(r.ctx, "CommandExecutionError", r.out.stdout)
            ELSE IF r.out.retcode = 0 /\ kw.json /\ r.out.parsed = Missing
            THEN Raise(r.ctx, "JSONDecodeError", r.out.stdout)
            ELSE Ret(r.ctx, IF r.out.retcode = 0 /\ kw.json THEN r.out
                            ELSE [r.out EXCEPT !.parsed = Missing]) :
            r \in {cmd_run_all(ctx, [Invocation(command, arguments, params, flgs, kwr)
                                       EXCEPT !.line = CommandLine(command, arguments, params,
                                                                   flgs, apc)])}})

\* the failure of a command: the message of the error names the command
\* and quotes what it wrote; the model keeps the standard output
\* a faulty occ that does not look for the entry point
occ_unchecked(ctx, command, arguments, parameters, flags, kw) ==
    LET kwr == [kw EXCEPT !.webroot = IF @ = "" THEN web_root ELSE @,
                          !.webuser = IF @ = "" THEN web_user ELSE @]
        params == IF kw.json THEN Append(parameters, <<"output", PyStr("json")>>)
                  ELSE parameters
        flgs == Append(flags, "no-interaction")
        apc == IF kw.ensure_apc.t = "null" THEN ensure_apc_global ELSE kw.ensure_apc # PyBool(FALSE)
    IN The({IF ~kw.expect_error /\ kw.raise_error /\ r.out.retcode # 0
            THEN Raise(r.ctx, "CommandExecutionError", r.out.stdout)
            ELSE IF r.out.retcode = 0 /\ kw.json /\ r.out.parsed = Missing
            THEN Raise(r.ctx, "JSONDecodeError", r.out.stdout)
            ELSE Ret(r.ctx, IF r.out.retcode = 0 /\ kw.json THEN r.out
                            ELSE [r.out EXCEPT !.parsed = Missing]) :
            r \in {cmd_run_all(ctx, [Invocation(command, arguments, params, flgs, kwr)
                                       EXCEPT !.line = CommandLine(command, arguments, params,
                                                                   flgs, apc)])}})

\* a faulty occ that leaves the output format to the caller
occ_no_output(ctx, command, arguments, parameters, flags, kw) ==
    LET kwr == [kw EXCEPT !.webroot = IF @ = "" THEN web_root ELSE @,
                          !.webuser = IF @ = "" THEN web_user ELSE @]
        flgs == Append(flags, "no-interaction")
        apc == IF kw.ensure_apc.t = "null" THEN ensure_apc_global ELSE kw.ensure_apc # PyBool(FALSE)
    IN IF ~ctx.inst.has_occ THEN Raise(ctx, "SaltInvocationError", "does not exist")
       ELSE
       The({IF ~kw.expect_error /\ kw.raise_error /\ r.out.retcode # 0
            THEN Raise(r.ctx, "CommandExecutionError", r.out.stdout)
            ELSE IF r.out.retcode = 0 /\ kw.json /\ r.out.parsed = Missing
            THEN Raise(r.ctx, "JSONDecodeError", r.out.stdout)
            ELSE Ret(r.ctx, IF r.out.retcode = 0 /\ kw.json THEN r.out
                            ELSE [r.out EXCEPT !.parsed = Missing]) :
            r \in {cmd_run_all(ctx, [Invocation(command, arguments, parameters, flgs, kwr)
                                       EXCEPT !.line = CommandLine(command, arguments,
                                                                   parameters, flgs, apc)])}})

occ(ctx, command, arguments, parameters, flags, kw) ==
    LET kwr == [kw EXCEPT !.webroot = IF @ = "" THEN web_root ELSE @,
                          !.webuser = IF @ = "" THEN web_user ELSE @]
        params == IF kw.json THEN Append(parameters, <<"output", PyStr("json")>>)
                  ELSE parameters
        flgs == Append(flags, "no-interaction")
        apc == IF kw.ensure_apc.t = "null" THEN ensure_apc_global ELSE kw.ensure_apc # PyBool(FALSE)
    IN IF ~ctx.inst.has_occ THEN Raise(ctx, "SaltInvocationError", "does not exist")
       ELSE
       The({IF ~kw.expect_error /\ kw.raise_error /\ r.out.retcode # 0
            THEN Raise(r.ctx, "CommandExecutionError", r.out.stdout)
            ELSE IF r.out.retcode = 0 /\ kw.json /\ r.out.parsed = Missing
            THEN Raise(r.ctx, "JSONDecodeError", r.out.stdout)
            ELSE Ret(r.ctx, IF r.out.retcode = 0 /\ kw.json THEN r.out
                            ELSE [r.out EXCEPT !.parsed = Missing]) :
            r \in {cmd_run_all(ctx, [Invocation(command, arguments, params, flgs, kwr)
                                       EXCEPT !.line = CommandLine(command, arguments, params,
                                                                   flgs, apc)])}})

\* the outcome r of a call, with True for its value unless it raised
TrueOf(r) == IF Raised(r) THEN r ELSE Ret(r.ctx, TRUE)
\* the outcome r of occ, with the parsed output for its value unless it raised
ParsedOf(r) == IF Raised(r) THEN r ELSE Ret(r.ctx, r.val.parsed)

\* a faulty check that takes every outcome of the command for a success
check_passing(ctx, only_status, tgt) ==
    The({IF Raised(r) THEN r ELSE Ret(r.ctx, "True") :
            r \in {occ(ctx, "check", <<>>, <<>>, <<>>,
                       [Kw(tgt) EXCEPT !.raise_error = FALSE, !.json = FALSE])}})

check(ctx, only_status, tgt) ==
    The({IF Raised(r) THEN r
         ELSE IF r.val.retcode = 0 THEN Ret(r.ctx, "True")
         ELSE IF only_status THEN Ret(r.ctx, "False")
         ELSE Ret(r.ctx, r.val.stdout) :
            r \in {occ(ctx, "check", <<>>, <<>>, <<>>,
                       [Kw(tgt) EXCEPT !.raise_error = FALSE, !.json = FALSE])}})

\* a faulty status that answers from what it read before the installation
\* was installed
status_stale(ctx, tgt) ==
    The({[r EXCEPT !.ctx.inst = ctx.inst] :
            r \in {ParsedOf(occ([ctx EXCEPT !.inst.installed = FALSE], "status", <<>>, <<>>,
                                <<>>, Kw(tgt)))}})

status(ctx, tgt) == ParsedOf(occ(ctx, "status", <<>>, <<>>, <<>>, Kw(tgt)))

\* __salt__["pillar.get"](key): None when the pillar has no such key
pillar_get(ctx, key) == ctx.env.pillar[key]

\* if x: for a string or None
Truthy(x) == x.t # "null" /\ x # PyStr("")

install(ctx, database, database_pass, database_pass_pillar, admin_pass, admin_pass_pillar, tgt) ==
    LET external == Truthy(database) /\ database # PyStr("sqlite")
        db_pass == IF Truthy(database_pass_pillar)
                   THEN pillar_get(ctx, database_pass_pillar.s) ELSE database_pass
        adm_pass == IF Truthy(admin_pass_pillar)
                    THEN pillar_get(ctx, admin_pass_pillar.s) ELSE admin_pass
        params == (IF Truthy(database) THEN <<<<"database", database>>>> ELSE <<>>)
                    \o (IF external
                        THEN <<<<"database-name", PyStr("nextcloud")>>,
                               <<"database-host", PyStr("localhost")>>,
                               <<"database-user", PyStr("nextcloud")>>,
                               <<"database-pass", PyStr("\"$NC_DB_PASS\"")>>>>
                        ELSE <<>>)
                    \o <<<<"admin-pass", PyStr("\"$NC_ADMIN_PASS\"")>>,
                          <<"data-dir", PyStr("/var/www/nextcloud/data")>>>>
        env == [k \in (IF external THEN {"NC_DB_PASS"} ELSE {}) \cup {"NC_ADMIN_PASS"} |->
                  IF k = "NC_DB_PASS" THEN db_pass ELSE adm_pass]
    IN The({IF Raised(r) THEN r
            ELSE IF r.val.installed
                 THEN Raise(r.ctx, "CommandExecutionError", "installed already")
            ELSE IF external /\ database_pass.t = "null" /\ database_pass_pillar.t = "null"
                 THEN Raise(r.ctx, "SaltInvocationError", "database_pass")
            ELSE IF admin_pass.t = "null" /\ admin_pass_pillar.t = "null"
                 THEN Raise(r.ctx, "SaltInvocationError", "admin_pass")
            ELSE IF external /\ db_pass.t = "null"
                 THEN Raise(r.ctx, "CommandExecutionError", "database_pass_pillar")
            ELSE IF adm_pass.t = "null"
                 THEN Raise(r.ctx, "CommandExecutionError", "admin_pass_pillar")
            ELSE TrueOf(occ(r.ctx, "maintenance:install", <<>>, params, <<>>,
                            [Kw(tgt) EXCEPT !.json = FALSE, !.env = env])) :
            r \in {status(ctx, tgt)}})

\* a faulty is_installed that takes every installation for a new one
is_installed_never(ctx, tgt) ==
    The({Ret(r.ctx, FALSE) : r \in {status(ctx, tgt)}})

is_installed(ctx, tgt) ==
    The({IF r.exc = "CommandExecutionError" THEN Ret(r.ctx, FALSE)
         ELSE IF Raised(r) THEN r
         ELSE Ret(r.ctx, r.val.installed) :
            r \in {status(ctx, tgt)}})

\* a faulty update_check_parse that trusts the output as it is
update_check_parse_trusting(r, o) ==
    Ret(r.ctx, [Nextcloud |-> IF o.system # <<>> THEN o.system[1] ELSE NoVersion])

\* what update_check makes of the output o of update:check
update_check_parse(r, o) ==
    IF o.uptodate THEN Ret(r.ctx, [Nextcloud |-> NoVersion])
    ELSE IF o.count = <<>> \/ Len(o.system) + Len(o.apps) # o.count[1]
         THEN Raise(r.ctx, "CommandExecutionError", "parsing")
    ELSE Ret(r.ctx, [Nextcloud |-> IF o.system # <<>> THEN o.system[1] ELSE NoVersion])

update_check(ctx, tgt) ==
    The({IF Raised(r) THEN r ELSE update_check_parse(r, r.val.stdout) :
            r \in {occ(ctx, "update:check", <<>>, <<>>, <<>>,
                       [Kw(tgt) EXCEPT !.json = FALSE])}})

\* the number of dots of a version text, and the version it parses to
DotCount(s) == CASE s = "23" -> 0 [] s = "23.0" -> 1 [] s = "23.0.4" -> 2 [] OTHER -> 0
ParseVersion(s) ==
    CASE s = "23" -> <<23, 0, 0>>
      [] s = "23.0" -> <<23, 0, 0>>
      [] s = "23.0.4" -> <<23, 0, 4>>
      [] OTHER -> <<0, 0, 0>>

\* the version max_version stands for after its missing parts are filled
\* with 999
TargetVersion(max_version) ==
    IF max_version.t = "int" THEN <<max_version.n \div 10, 999, 999>>
    ELSE IF max_version.t = "float"
         THEN <<max_version.n \div 10, max_version.n % 10, 999>>
    ELSE IF DotCount(max_version.s) = 1
         THEN <<ParseVersion(max_version.s)[1], ParseVersion(max_version.s)[2], 999>>
    ELSE ParseVersion(max_version.s)

is_uptodate(ctx, max_version, tgt) ==
    The({IF Raised(r) THEN r
         ELSE IF r.val.Nextcloud = NoVersion THEN Ret(r.ctx, TRUE)
         ELSE IF max_version.t = "null" THEN Ret(r.ctx, FALSE)
         ELSE Ret(r.ctx, VersionLess(TargetVersion(max_version), r.val.Nextcloud)) :
            r \in {update_check(ctx, tgt)}})

\* the characters of the text "--no-backup"
NoBackupChars == <<"-", "-", "n", "o", "-", "b", "a", "c", "k", "u", "p">>

\* ensure_apc as upgrade takes it: the module's default for None
ApcOf(ensure_apc) ==
    IF ensure_apc.t = "null" THEN ensure_apc_global ELSE ensure_apc # PyBool(FALSE)

upgrade(ctx, no_backup, ensure_apc, tgt) ==
    LET webroot == IF tgt.webroot = "" THEN web_root ELSE tgt.webroot
        webuser == IF tgt.webuser = "" THEN web_user ELSE tgt.webuser
        cmd == <<"php">>
               \o (IF ensure_apc THEN <<"--define", "apc.enable_cli=1">> ELSE <<>>)
               \o <<"updater/updater.phar", "--no-interaction">>
               \o (IF no_backup THEN NoBackupChars ELSE <<>>)
    IN IF ~ctx.inst.has_updater
       THEN Raise(ctx, "CommandExecutionError", "Could not find updater")
       ELSE
       The({IF r.out.retcode > 0 THEN Raise(r.ctx, "CommandExecutionError", "updater")
            ELSE Ret(r.ctx, TRUE) :
            r \in {cmd_run_all(ctx, Invocation("updater", cmd, <<>>, <<>>,
                       [OccDefaults EXCEPT !.webroot = webroot, !.webuser = webuser]))}})

version(ctx, tgt) ==
    The({IF Raised(r) THEN r ELSE Ret(r.ctx, r.val.stdout[2]) :
            r \in {occ(ctx, "--version", <<>>, <<>>, <<>>, [Kw(tgt) EXCEPT !.json = FALSE])}})

\* _php: runs a script with php -r, without occ
php(ctx, script, tgt) ==
    LET webroot == IF tgt.webroot = "" THEN web_root ELSE tgt.webroot
        webuser == IF tgt.webuser = "" THEN web_user ELSE tgt.webuser
    IN The({IF r.out.retcode = 0 THEN Ret(r.ctx, r.out.stdout)
            ELSE Raise(r.ctx, "CommandExecutionError", "php") :
            r \in {cmd_run_all(ctx, Invocation("php", <<"-r", script>>, <<>>, <<>>,
                       [OccDefaults EXCEPT !.webroot = webroot, !.webuser = webuser]))}})

\* reads version.php directly
version_raw(ctx, tgt) == php(ctx, "version.php", tgt)

app_disable(ctx, app, tgt) ==
    TrueOf(occ(ctx, "app:disable", <<app>>, <<>>, <<>>, [Kw(tgt) EXCEPT !.json = FALSE]))

\* groups is a list of group names
app_enable(ctx, app, force, groups, tgt) ==
    TrueOf(occ(ctx, "app:enable", <<app>>,
               [k \in 1..Len(groups) |-> <<"groups", PyStr(groups[k])>>],
               IF force THEN <<"force">> ELSE <<>>, [Kw(tgt) EXCEPT !.json = FALSE]))

app_install(ctx, app, force, keep_disabled, allow_unstable, tgt) ==
    TrueOf(occ(ctx, "app:install", <<app>>, <<>>,
               (IF keep_disabled THEN <<"keep-disabled">> ELSE <<>>)
                 \o (IF force THEN <<"force">> ELSE <<>>)
                 \o (IF allow_unstable THEN <<"allow-unstable">> ELSE <<>>),
               [Kw(tgt) EXCEPT !.json = FALSE]))

app_list(ctx, tgt) == ParsedOf(occ(ctx, "app:list", <<>>, <<>>, <<>>, Kw(tgt)))

app_remove(ctx, app, tgt) ==
    TrueOf(occ(ctx, "app:remove", <<app>>, <<>>, <<>>, [Kw(tgt) EXCEPT !.json = FALSE]))

\* default is None here, as every caller of this module leaves it
config_app_get(ctx, app, name, tgt) ==
    The({IF Raised(r) THEN r
         ELSE IF r.val.retcode = 0 THEN Ret(r.ctx, r.val.parsed)
         ELSE Raise(r.ctx, "CommandExecutionError", "config_app_get") :
            r \in {occ(ctx, "config:app:get", <<app, name>>, <<>>, <<>>,
                       [Kw(tgt) EXCEPT !.raise_error = FALSE])}})

(***************************************************************************)
(* Texts that the code joins and splits are sequences of tokens: key names *)
(* and the separators between them.                                        *)
(***************************************************************************)
RECURSIVE SplitText(_, _)
SplitText(text, sep) ==
    IF \A i \in 1..Len(text) : text[i] # sep THEN <<text>>
    ELSE LET i == CHOOSE k \in 1..Len(text) :
                      text[k] = sep /\ \A j \in 1..(k - 1) : text[j] # sep
         IN <<SubSeq(text, 1, i - 1)>> \o SplitText(SubSeq(text, i + 1, Len(text)), sep)

RECURSIVE JoinText(_, _)
JoinText(texts, sep) ==
    IF texts = <<>> THEN <<>>
    ELSE IF Len(texts) = 1 THEN texts[1]
    ELSE texts[1] \o <<sep>> \o JoinText(Tail(texts), sep)

\* the key a text names: a single key name, or no key of the model
KeyOf(text) == IF Len(text) = 1 THEN text[1] ELSE "?"
KeysOf(texts) == [k \in 1..Len(texts) |-> KeyOf(texts[k])]

\* the order in which a dictionary's keys are iterated
AllKeys == <<"system", "apps", "app", "a1", "k1", "k2", "e", "sub">>
KeysInOrder(f) == SelectSeq(AllKeys, LAMBDA k : k \in DOMAIN f)

config_app_set(ctx, app, name, value, update_only, tgt) ==
    TrueOf(occ(ctx, "config:app:set", <<app, name>>,
               <<<<"value", IF value.t = "bool"
                            THEN PyStr(IF value.n # 0 THEN "yes" ELSE "no") ELSE value>>>>,
               IF update_only THEN <<"update-only">> ELSE <<>>,
               [Kw(tgt) EXCEPT !.json = FALSE]))

config_system_delete(ctx, name, error_if_not_exists, separator, tgt) ==
    TrueOf(occ(ctx, "config:system:delete", KeysOf(SplitText(name, separator)), <<>>,
               IF error_if_not_exists THEN <<"error-if-not-exists">> ELSE <<>>,
               [Kw(tgt) EXCEPT !.json = FALSE]))

config_system_get(ctx, name, default, separator, tgt) ==
    The({IF Raised(r) THEN r
         ELSE IF r.val.retcode = 0 THEN Ret(r.ctx, r.val.parsed)
         ELSE IF default.t # "null" THEN Ret(r.ctx, default)
         ELSE Raise(r.ctx, "CommandExecutionError", "config_system_get") :
            r \in {occ(ctx, "config:system:get", KeysOf(SplitText(name, separator)),
                       <<>>, <<>>, [Kw(tgt) EXCEPT !.raise_error = FALSE])}})

config_system_set(ctx, name, value, vtype, update_only, separator, tgt) ==
    IF vtype \notin {"string", "integer", "double", "boolean"}
    THEN Raise(ctx, "CommandExecutionError", "vtype")
    ELSE TrueOf(occ(ctx, "config:system:set", KeysOf(SplitText(name, separator)),
                    <<<<"value", StrOf(value)>>, <<"type", PyStr(vtype)>>>>,
                    IF update_only THEN <<"update-only">> ELSE <<>>,
                    [Kw(tgt) EXCEPT !.json = FALSE]))

config_list(ctx, app, private, tgt) ==
    ParsedOf(occ(ctx, "config:list", <<app>>, <<>>,
                 IF private THEN <<"private">> ELSE <<>>, Kw(tgt)))

(***************************************************************************)
(* config_import and its workaround for floating-point values.             *)
(***************************************************************************)
\* the floats of data, at their places; None (PyNone) for anything else
RECURSIVE find_double(_)
find_double(data) ==
    IF ~IsDict(data) THEN (IF data.t = "float" THEN data ELSE PyNone)
    ELSE LET filtered == [key \in DOMAIN data.d |-> find_double(data.d[key])]
         IN PyDict([key \in {k \in DOMAIN filtered : filtered[k].t # "null"} |->
                      filtered[key]])

\* a faulty filter_double that takes nothing out
filter_double_nothing(data, doubles) == data

\* data without the values found in doubles
RECURSIVE filter_double(_, _)
filter_double(data, doubles) ==
    IF ~IsDict(data) THEN PyNone
    ELSE LET filtered == [key \in DOMAIN data.d |->
                            IF IsDict(doubles) /\ key \in DOMAIN doubles.d
                            THEN filter_double(data.d[key], doubles.d[key])
                            ELSE data.d[key]]
         IN PyDict([key \in {k \in DOMAIN filtered : filtered[k].t # "null"} |->
                      filtered[key]])

\* the (path text, value) pairs of the leaves of data
RECURSIVE flatten_dict(_, _, _)
RECURSIVE flatten_items(_, _, _, _)
flatten_dict(data, prefix, separator) ==
    IF ~IsDict(data)
    THEN <<<<IF prefix = <<>> THEN <<>> ELSE SubSeq(prefix, 1, Len(prefix) - 1), data>>>>
    ELSE flatten_items(data, KeysInOrder(data.d), prefix, separator)
flatten_items(data, keys, prefix, separator) ==
    IF keys = <<>> THEN <<>>
    ELSE flatten_dict(data.d[Head(keys)], prefix \o <<Head(keys), separator>>, "|||")
         \o flatten_items(data, Tail(keys), prefix, separator)

\* one round of the loop below: p is the path text, val the float
set_double(ctx, p, val, tgt) ==
    LET parts == SplitText(p, "|||")
        scope == parts[1]
        key == Tail(parts)
    IN IF scope = <<"system">>
       THEN config_system_set(ctx, JoinText(key, "|||"), val, "double", FALSE, "|||", tgt)
       ELSE IF scope = <<"app">>
            THEN IF key = <<>> THEN Raise(ctx, "ValueError", "unpack")
                 ELSE IF Len(key) - 1 > 1
                      THEN Raise(ctx, "CommandExecutionError", "double in dictionary")
                 ELSE IF Len(key) - 1 = 0 THEN Raise(ctx, "IndexError", "name[0]")
                 \* config_app_set takes neither vtype nor separator
                 ELSE Raise(ctx, "TypeError", "config_app_set")
       ELSE Ret(ctx, TRUE)

\* workaround, part 2: the loop that sets the filtered floats one by one
RECURSIVE set_doubles(_, _, _)
set_doubles(ctx, doubles, tgt) ==
    IF doubles = <<>> THEN Ret(ctx, TRUE)
    ELSE The({IF Raised(r) THEN r ELSE set_doubles(r.ctx, Tail(doubles), tgt) :
                 r \in {set_double(ctx, doubles[1][1], doubles[1][2], tgt)}})

\* the installed version as config_import reads it
import_version(ctx, tgt) ==
    The({IF v.exc = "CommandExecutionError" THEN version_raw(v.ctx, tgt) ELSE v :
            v \in {version(ctx, tgt)}})

\* a faulty import_data that sets the floats before it imports
import_data_sets_first(v, config, tgt) ==
    LET workaround == VersionLess(v.val, FixedVersion)
        found == find_double(config)
        payload == IF workaround THEN filter_double(config, found) ELSE config
        doubles == IF workaround THEN flatten_dict(found, <<>>, "|||") ELSE <<>>
    IN The({IF Raised(s) THEN s
            ELSE TrueOf(occ(s.ctx, "config:import", <<>>, <<>>, <<>>,
                            [Kw(tgt) EXCEPT !.json = FALSE, !.stdin = payload])) :
               s \in {set_doubles(v.ctx, doubles, tgt)}})

\* config_import once the version v is read: the import of config, then
\* the floats found in it
import_data(v, config, tgt) ==
    LET workaround == VersionLess(v.val, FixedVersion)
        found == find_double(config)
        payload == IF workaround THEN filter_double(config, found) ELSE config
        doubles == IF workaround THEN flatten_dict(found, <<>>, "|||") ELSE <<>>
    IN The({IF Raised(out) THEN out ELSE TrueOf(set_doubles(out.ctx, doubles, tgt)) :
               out \in {occ(v.ctx, "config:import", <<>>, <<>>, <<>>,
                            [Kw(tgt) EXCEPT !.json = FALSE, !.stdin = payload])}})

\* config is a configuration, or the path of a file (a string)
config_import(ctx, config, tgt) ==
    IF config.t = "str"
    THEN TrueOf(occ(ctx, "config:import", <<config.s>>, <<>>, <<>>,
                    [Kw(tgt) EXCEPT !.json = FALSE]))
    ELSE The({IF Raised(v) THEN v ELSE import_data(v, config, tgt) :
                 v \in {import_version(ctx, tgt)}})

(***************************************************************************)
(* Groups and users.                                                       *)
(***************************************************************************)
group_add(ctx, groupid, tgt) ==
    TrueOf(occ(ctx, "group:add", <<groupid>>, <<>>, <<>>, [Kw(tgt) EXCEPT !.json = FALSE]))

group_adduser(ctx, group, user, tgt) ==
    TrueOf(occ(ctx, "group:adduser", <<group, user>>, <<>>, <<>>,
               [Kw(tgt) EXCEPT !.json = FALSE]))

group_delete(ctx, groupid, tgt) ==
    TrueOf(occ(ctx, "group:delete", <<groupid>>, <<>>, <<>>,
               [Kw(tgt) EXCEPT !.json = FALSE]))

\* a faulty group_exists that reads the two answers of the probe the wrong
\* way round
group_exists_inverted(ctx, groupid, tgt) ==
    The({IF Raised(r) THEN r
         ELSE IF r.val.retcode = 0 THEN Raise(r.ctx, "CommandExecutionError", "sentinel removed")
         ELSE IF r.val.stdout = "group not found" THEN Ret(r.ctx, TRUE)
         ELSE IF r.val.stdout = "user not found" THEN Ret(r.ctx, FALSE)
         ELSE Raise(r.ctx, "CommandExecutionError", "unexpected error") :
            r \in {occ(ctx, "group:removeuser", <<groupid, Sentinel>>, <<>>, <<>>,
                       [Kw(tgt) EXCEPT !.json = FALSE, !.expect_error = TRUE])}})

group_exists(ctx, groupid, tgt) ==
    The({IF Raised(r) THEN r
         ELSE IF r.val.retcode = 0 THEN Raise(r.ctx, "CommandExecutionError", "sentinel removed")
         ELSE IF r.val.stdout = "group not found" THEN Ret(r.ctx, FALSE)
         ELSE IF r.val.stdout = "user not found" THEN Ret(r.ctx, TRUE)
         ELSE Raise(r.ctx, "CommandExecutionError", "unexpected error") :
            r \in {occ(ctx, "group:removeuser", <<groupid, Sentinel>>, <<>>, <<>>,
                       [Kw(tgt) EXCEPT !.json = FALSE, !.expect_error = TRUE])}})

group_list(ctx, limit, offset, tgt) ==
    ParsedOf(occ(ctx, "group:list", <<>>,
                 <<<<"limit", PyInt(limit)>>, <<"offset", PyInt(offset)>>>>, <<>>, Kw(tgt)))

group_removeuser(ctx, group, user, tgt) ==
    TrueOf(occ(ctx, "group:removeuser", <<group, user>>, <<>>, <<>>,
               [Kw(tgt) EXCEPT !.json = FALSE]))

\* password is the password given, None (PyNone) when there is none
\* re.fullmatch(r"[A-z0-9_@\-]+", user_id): of the ids of the model, the
\* one with a blank in it does not match
LegalUserId(user_id) == user_id # "u 1"

\* a faulty PasswordOf that falls back to the password given directly
PasswordOf_fallback(ctx, password, password_pillar) ==
    IF Truthy(password_pillar) /\ pillar_get(ctx, password_pillar.s) # PyNone
    THEN pillar_get(ctx, password_pillar.s) ELSE password

\* the password a call is to use: the pillar's when a pillar key is given
PasswordOf(ctx, password, password_pillar) ==
    IF Truthy(password_pillar) THEN pillar_get(ctx, password_pillar.s) ELSE password

user_add(ctx, user_id, password, password_pillar, tgt) ==
    IF ~LegalUserId(user_id) THEN Raise(ctx, "SaltInvocationError", "user_id")
    ELSE IF password.t = "null" /\ password_pillar.t = "null"
         THEN Raise(ctx, "SaltInvocationError", "password")
    ELSE IF PasswordOf(ctx, password, password_pillar).t = "null"
         THEN Raise(ctx, "CommandExecutionError", "password_pillar")
    ELSE TrueOf(occ(ctx, "user:add", <<user_id>>, <<>>, <<"password-from-env">>,
                    [Kw(tgt) EXCEPT !.json = FALSE,
                                    !.env = [k \in {"OC_PASS"} |->
                                               PasswordOf(ctx, password, password_pillar)]]))

\* out["stdout"].splitlines()[1]
user_add_app_password(ctx, user_id, password, password_pillar, tgt) ==
    IF password.t = "null" /\ password_pillar.t = "null"
    THEN Raise(ctx, "SaltInvocationError", "password")
    ELSE IF PasswordOf(ctx, password, password_pillar).t = "null"
         THEN Raise(ctx, "CommandExecutionError", "password_pillar")
    ELSE The({IF Raised(r) THEN r
              ELSE IF Len(r.val.stdout) < 2 THEN Raise(r.ctx, "IndexError", "splitlines")
              ELSE Ret(r.ctx, r.val.stdout[2]) :
                 r \in {occ(ctx, "user:add-app-password", <<user_id>>, <<>>,
                            <<"password-from-env">>,
                            [Kw(tgt) EXCEPT !.json = FALSE,
                                            !.env = [k \in {"NC_PASS"} |->
                                                       PasswordOf(ctx, password,
                                                                  password_pillar)]])}})

\* a faulty user_resetpassword that hands the password over as a parameter
user_resetpassword_as_parameter(ctx, user_id, password, password_pillar, tgt) ==
    IF password.t = "null" /\ password_pillar.t = "null"
    THEN Raise(ctx, "SaltInvocationError", "password")
    ELSE IF PasswordOf(ctx, password, password_pillar).t = "null"
         THEN Raise(ctx, "CommandExecutionError", "password_pillar")
    ELSE TrueOf(occ(ctx, "user:resetpassword", <<user_id>>,
                    <<<<"password", PasswordOf(ctx, password, password_pillar)>>>>, <<>>,
                    [Kw(tgt) EXCEPT !.json = FALSE]))

user_resetpassword(ctx, user_id, password, password_pillar, tgt) ==
    IF password.t = "null" /\ password_pillar.t = "null"
    THEN Raise(ctx, "SaltInvocationError", "password")
    ELSE IF PasswordOf(ctx, password, password_pillar).t = "null"
         THEN Raise(ctx, "CommandExecutionError", "password_pillar")
    ELSE TrueOf(occ(ctx, "user:resetpassword", <<user_id>>, <<>>, <<"password-from-env">>,
                    [Kw(tgt) EXCEPT !.json = FALSE,
                                    !.env = [k \in {"OC_PASS"} |->
                                               PasswordOf(ctx, password, password_pillar)]]))

\* port and chunk_size are left at None, all_apps at False
db_convert_type(ctx, dbtype, username, hostname, database, password, password_pillar, clear_schema, tgt) ==
    The({IF Raised(r) THEN r
         ELSE IF PyEq(PyStr(dbtype), r.val)
              THEN Raise(r.ctx, "SaltInvocationError", "same type")
         ELSE IF dbtype \notin {"mysql", "pgsql", "oci"}
              THEN Raise(r.ctx, "SaltInvocationError", "dbtype")
         ELSE IF dbtype = "oci" /\ clear_schema
              THEN Raise(r.ctx, "SaltInvocationError", "clear_schema")
         ELSE IF password.t = "null" /\ password_pillar.t = "null"
              THEN Raise(r.ctx, "SaltInvocationError", "password")
         ELSE IF PasswordOf(r.ctx, password, password_pillar).t = "null"
              THEN Raise(r.ctx, "CommandExecutionError", "password_pillar")
         ELSE TrueOf(occ(r.ctx, "db:convert-type", <<dbtype, username, hostname, database>>,
                         <<>>, IF clear_schema THEN <<"clear-schema">> ELSE <<>>,
                         [Kw(tgt) EXCEPT !.json = FALSE,
                                         !.stdin = PasswordOf(r.ctx, password,
                                                              password_pillar)])) :
            r \in {config_system_get(ctx, <<"dbtype">>, PyNone, ":", tgt)}})

\* "-{}".format("v" * verbosity)
VerbosityFlag(verbosity) ==
    CASE verbosity = 1 -> "-v" [] verbosity = 2 -> "-vv" [] OTHER -> "-vvv"

\* the list flags is built and not handed to occ
files_repair_tree(ctx, dry_run, verbosity, tgt) ==
    LET flags == (IF dry_run THEN <<"dry-run">> ELSE <<>>)
                   \o (IF verbosity > 0 THEN <<VerbosityFlag(verbosity)>> ELSE <<>>)
    IN TrueOf(occ(ctx, "files:repair-tree", <<>>, <<>>, <<>>,
                  [Kw(tgt) EXCEPT !.json = FALSE]))

preview_repair(ctx, dry_run, verbosity, delete, tgt) ==
    LET flags == <<"batch">>
                   \o (IF dry_run THEN <<"dry">> ELSE <<>>)
                   \o (IF verbosity > 0 THEN <<VerbosityFlag(verbosity)>> ELSE <<>>)
                   \o (IF delete THEN <<"delete">> ELSE <<>>)
    IN TrueOf(occ(ctx, "preview:repair", <<>>, <<>>, flags, [Kw(tgt) EXCEPT !.json = FALSE]))

\* backend, level and timezone are strings, "" standing for None
log_manage(ctx, backend, level, timezone, tgt) ==
    LET params == (IF backend # "" THEN <<<<"backend", PyStr(backend)>>>> ELSE <<>>)
                    \o (IF level # "" THEN <<<<"level", PyStr(level)>>>> ELSE <<>>)
                    \o (IF timezone # "" THEN <<<<"timezone", PyStr(timezone)>>>> ELSE <<>>)
    IN IF backend # "" /\ backend \notin {"file", "syslog", "errorlog", "systemd"}
       THEN Raise(ctx, "SaltInvocationError", "backend")
       ELSE IF level # "" /\ level \notin {"debug", "info", "warning", "error", "fatal"}
            THEN Raise(ctx, "SaltInvocationError", "level")
       ELSE IF params = <<>> THEN Raise(ctx, "SaltInvocationError", "nothing specified")
       ELSE TrueOf(occ(ctx, "log:manage", <<>>, params, <<>>,
                       [Kw(tgt) EXCEPT !.json = FALSE]))

user_delete(ctx, user_id, tgt) ==
    TrueOf(occ(ctx, "user:delete", <<user_id>>, <<>>, <<>>, [Kw(tgt) EXCEPT !.json = FALSE]))

user_disable(ctx, user_id, tgt) ==
    TrueOf(occ(ctx, "user:disable", <<user_id>>, <<>>, <<>>, [Kw(tgt) EXCEPT !.json = FALSE]))

user_enable(ctx, user_id, tgt) ==
    TrueOf(occ(ctx, "user:enable", <<user_id>>, <<>>, <<>>, [Kw(tgt) EXCEPT !.json = FALSE]))

\* a faulty user_exists that finds no account
user_exists_never(ctx, user_id, tgt) ==
    The({Ret(r.ctx, FALSE) :
            r \in {occ(ctx, "user:info", <<user_id>>, <<>>, <<>>,
                       [Kw(tgt) EXCEPT !.expect_error = TRUE])}})

\* a faulty user_exists that does not expect the command to fail
user_exists_strict(ctx, user_id, tgt) ==
    The({IF Raised(r) THEN r
         ELSE IF r.val.retcode = 0 THEN Ret(r.ctx, TRUE)
         ELSE IF r.val.stdout = "user not found" THEN Ret(r.ctx, FALSE)
         ELSE Raise(r.ctx, "CommandExecutionError", "unexpected error") :
            r \in {occ(ctx, "user:info", <<user_id>>, <<>>, <<>>, Kw(tgt))}})

user_exists(ctx, user_id, tgt) ==
    The({IF Raised(r) THEN r
         ELSE IF r.val.retcode = 0 THEN Ret(r.ctx, TRUE)
         ELSE IF r.val.stdout = "user not found" THEN Ret(r.ctx, FALSE)
         ELSE Raise(r.ctx, "CommandExecutionError", "unexpected error") :
            r \in {occ(ctx, "user:info", <<user_id>>, <<>>, <<>>,
                       [Kw(tgt) EXCEPT !.expect_error = TRUE])}})

user_info(ctx, user_id, tgt) ==
    ParsedOf(occ(ctx, "user:info", <<user_id>>, <<>>, <<>>, Kw(tgt)))

user_enabled(ctx, user_id, tgt) ==
    The({IF Raised(r) THEN r ELSE Ret(r.ctx, r.val.enabled) :
            r \in {user_info(ctx, user_id, tgt)}})

(***************************************************************************)
(* The state module.  A state function returns ret: result ("True",        *)
(* "False" or "None"), changes (a mapping, empty when nothing changed) and *)
(* comment (the pieces of the message, in order).                          *)
(***************************************************************************)
NoChanges == <<>>
StateRet(result, comment, changes) ==
    [result |-> result, comment |-> comment, changes |-> changes]

\* except (SaltInvocationError, CommandExecutionError) as e: any other
\* exception leaves the state function
Caught(r) == r.exc \in {"SaltInvocationError", "CommandExecutionError"}
Except(r, comment, changes) ==
    IF Caught(r) THEN Ret(r.ctx, StateRet("False", comment \o <<r.msg>>, changes)) ELSE r

\* a faulty Applied that reports the change whatever became of the call
Applied_hopeful(r, comment, changes) == Ret(r.ctx, StateRet("True", <<comment>>, changes))

\* the branches every state function ends with, r being the outcome of the
\* call that applies the change: elif __salt__[...](...): ... else: ...
Applied(r, comment, changes) ==
    IF Raised(r) THEN Except(r, <<>>, NoChanges)
    ELSE IF r.val = FALSE
         THEN Ret(r.ctx, StateRet("False", <<"something went wrong">>, NoChanges))
    ELSE Ret(r.ctx, StateRet("True", <<comment>>, changes))

installed(ctx, admin_pass, test, tgt) ==
    The({IF Raised(r1) THEN Except(r1, <<>>, NoChanges)
         ELSE IF r1.val THEN Ret(r1.ctx, StateRet("True", <<"already finished">>, NoChanges))
         ELSE IF test
              THEN Ret(r1.ctx, StateRet("None", <<"would have been installed">>,
                                        "installed" :> "Nextcloud"))
         ELSE Applied(install(r1.ctx, PyNone, PyNone, PyNone, admin_pass, PyNone, tgt), "has been installed",
                      "installed" :> "Nextcloud") :
            r1 \in {is_installed(ctx, tgt)}})

\* uptodate once the update is known to be wanted: r2 is what update_check
\* answered
uptodate_to(r2, no_backup, ensure_apc, test, tgt) ==
    IF Raised(r2) THEN Except(r2, <<>>, NoChanges)
    ELSE IF r2.val.Nextcloud = NoVersion THEN Raise(r2.ctx, "KeyError", "Nextcloud")
    ELSE IF test
         THEN Ret(r2.ctx, StateRet("None", <<"would have been updated">>,
                                   "upgraded" :> r2.val.Nextcloud))
    ELSE Applied(upgrade(r2.ctx, no_backup, ensure_apc, tgt), "has been updated",
                 "upgraded" :> r2.val.Nextcloud)

uptodate(ctx, max_version, no_backup, ensure_apc, test, tgt) ==
    The({IF Raised(r1) THEN Except(r1, <<>>, NoChanges)
         ELSE IF r1.val THEN Ret(r1.ctx, StateRet("True", <<"already up to date">>, NoChanges))
         ELSE The({uptodate_to(r2, no_backup, ensure_apc, test, tgt) :
                      r2 \in {update_check(r1.ctx, tgt)}}) :
            r1 \in {is_uptodate(ctx, max_version, tgt)}})

app_removed(ctx, name, test, tgt) ==
    The({IF Raised(r1) THEN Except(r1, <<>>, NoChanges)
         ELSE IF name \notin r1.val.enabled /\ name \notin r1.val.disabled
              THEN Ret(r1.ctx, StateRet("True", <<"already removed">>, NoChanges))
         ELSE IF test
              THEN Ret(r1.ctx, StateRet("None", <<"would have been removed">>,
                                        "removed" :> name))
         ELSE Applied(app_remove(r1.ctx, name, tgt), "has been removed", "removed" :> name) :
            r1 \in {app_list(ctx, tgt)}})

\* the type tag config_set derives when vtype is None ("" here): the test
\* for int comes first, and a bool is an int
AutoVtype(value) ==
    IF value.t \in {"int", "bool"} THEN "integer"
    ELSE IF value.t = "bool" THEN "boolean"
    ELSE IF value.t = "float" THEN "double"
    ELSE "string"

config_set(ctx, name, value, vtype, separator, test, tgt) ==
    LET vt == IF vtype = "" THEN AutoVtype(value) ELSE vtype
        changes == "config_set" :> <<name, value>>
    IN IF vt \notin {"string", "integer", "double", "boolean"}
       THEN Ret(ctx, StateRet("False", <<"vtype is invalid">>, NoChanges))
       ELSE The({IF Raised(r1) THEN Except(r1, <<>>, NoChanges)
                 ELSE IF PyEq(value, r1.val)
                      THEN Ret(r1.ctx, StateRet("True", <<"already in the correct state">>,
                                                NoChanges))
                 ELSE IF test
                      THEN Ret(r1.ctx, StateRet("None", <<"would have been updated">>, changes))
                 ELSE Applied(config_system_set(r1.ctx, name, value, vt, FALSE, separator, tgt),
                              "has been updated", changes) :
                    r1 \in {config_system_get(ctx, name, PyStr("__UNSET"), separator,
                                              NoTarget)}})

config_absent(ctx, name, separator, test, tgt) ==
    The({IF Raised(r1) THEN Except(r1, <<>>, NoChanges)
         ELSE IF PyEq(PyStr("__UNSET"), r1.val)
              THEN Ret(r1.ctx, StateRet("True", <<"already absent">>, NoChanges))
         ELSE IF test
              THEN Ret(r1.ctx, StateRet("None", <<"would have deleted">>, "deleted" :> name))
         ELSE Applied(config_system_delete(r1.ctx, name, FALSE, separator, tgt),
                      "has been deleted", "deleted" :> name) :
            r1 \in {config_system_get(ctx, name, PyStr("__UNSET"), separator, NoTarget)}})

group_absent(ctx, name, test, tgt) ==
    The({IF Raised(r1) THEN Except(r1, <<>>, NoChanges)
         ELSE IF ~r1.val THEN Ret(r1.ctx, StateRet("True", <<"already absent">>, NoChanges))
         ELSE IF test
              THEN Ret(r1.ctx, StateRet("None", <<"would have been deleted">>,
                                        "deleted" :> name))
         ELSE Applied(group_delete(r1.ctx, name, tgt), "has been deleted", "deleted" :> name) :
            r1 \in {group_exists(ctx, name, tgt)}})

user_absent(ctx, name, test, tgt) ==
    The({IF Raised(r1) THEN Except(r1, <<>>, NoChanges)
         ELSE IF ~r1.val THEN Ret(r1.ctx, StateRet("True", <<"already absent">>, NoChanges))
         ELSE IF test
              THEN Ret(r1.ctx, StateRet("None", <<"would have been deleted">>,
                                        "deleted" :> name))
         ELSE Applied(user_delete(r1.ctx, name, tgt), "has been deleted", "deleted" :> name) :
            r1 \in {user_exists(ctx, name, tgt)}})

\* the second half of user_present: the enabled status of an account that
\* exists; ret is what the first half has set
user_present_status(ctx, ret, name, enabled, test, tgt) ==
    LET enabled_str == IF enabled THEN "enable" ELSE "disable"
        changes == IF enabled THEN "enabled" :> name ELSE "disabled" :> name
    IN The({IF Raised(r1) THEN Except(r1, ret.comment, ret.changes)
            ELSE IF r1.val = enabled
                 THEN Ret(r1.ctx, [ret EXCEPT !.comment = @ \o <<"already", enabled_str>>])
            ELSE IF test
                 THEN Ret(r1.ctx, StateRet("None", ret.comment \o <<"would have been">>,
                                           changes))
            ELSE The({IF Raised(r2) THEN Except(r2, ret.comment, ret.changes)
                      ELSE IF r2.val
                           THEN Ret(r2.ctx, StateRet(ret.result, ret.comment \o <<"has been">>,
                                                     changes))
                      ELSE Ret(r2.ctx, StateRet("False", <<"something went wrong">>,
                                                ret.changes)) :
                         r2 \in {IF enabled THEN user_enable(r1.ctx, name, tgt)
                                 ELSE user_disable(r1.ctx, name, tgt)}}) :
               r1 \in {user_enabled(ctx, name, tgt)}})

\* a faulty user_present that, in test mode, goes on to look up the status
\* of the account it has not created
user_present_lookup(ctx, name, enabled, init_password, test, tgt) ==
    The({IF Raised(r1) THEN Except(r1, <<>>, NoChanges)
         ELSE IF r1.val
              THEN user_present_status(r1.ctx,
                                       StateRet("True", <<"already exists">>, NoChanges),
                                       name, enabled, test, tgt)
         ELSE IF test
              THEN user_present_status(r1.ctx,
                                       StateRet("None", <<"would have been created">>,
                                                "created" :> name),
                                       name, enabled, test, tgt)
         ELSE The({IF Raised(r2) THEN Except(r2, <<>>, NoChanges)
                   ELSE IF r2.val
                        THEN user_present_status(r2.ctx,
                                                 StateRet("True", <<"has been created">>,
                                                          "created" :> name),
                                                 name, enabled, test, tgt)
                   ELSE Ret(r2.ctx, StateRet("False", <<"something went wrong">>, NoChanges)) :
                      r2 \in {user_add(r1.ctx, name, init_password, PyNone, tgt)}}) :
            r1 \in {user_exists(ctx, name, tgt)}})

user_present(ctx, name, enabled, init_password, test, tgt) ==
    The({IF Raised(r1) THEN Except(r1, <<>>, NoChanges)
         ELSE IF r1.val
              THEN user_present_status(r1.ctx,
                                       StateRet("True", <<"already exists">>, NoChanges),
                                       name, enabled, test, tgt)
         ELSE IF test
              THEN IF ~enabled
                   THEN Ret(r1.ctx, StateRet("None", <<"would have been created",
                                                       "would have been disabled">>,
                                             ("created" :> name) @@ ("disabled" :> name)))
                   ELSE Ret(r1.ctx, StateRet("None", <<"would have been created">>,
                                             "created" :> name))
         ELSE The({IF Raised(r2) THEN Except(r2, <<>>, NoChanges)
                   ELSE IF r2.val
                        THEN user_present_status(r2.ctx,
                                                 StateRet("True", <<"has been created">>,
                                                          "created" :> name),
                                                 name, enabled, test, tgt)
                   ELSE Ret(r2.ctx, StateRet("False", <<"something went wrong">>, NoChanges)) :
                      r2 \in {user_add(r1.ctx, name, init_password, PyNone, tgt)}}) :
            r1 \in {user_exists(ctx, name, tgt)}})

(***************************************************************************)
(* group_present.                                                          *)
(***************************************************************************)
\* the page size of the group listing
PageLimit == 500

\* a faulty group_pages that fetches one page more than max_iterations
RECURSIVE group_pages_one_more(_, _, _, _, _, _)
group_pages_one_more(ctx, name, current, iterations, max_iterations, tgt) ==
    IF name \in DOMAIN current \/ iterations > max_iterations THEN Ret(ctx, current)
    ELSE The({IF Raised(r) THEN r
              ELSE group_pages_one_more(r.ctx, name, r.val, iterations + 1, max_iterations,
                                        tgt) :
                 r \in {group_list(ctx, PageLimit, PageLimit * iterations, tgt)}})

\* the loop that fetches page after page until the group is listed
RECURSIVE group_pages(_, _, _, _, _, _)
group_pages(ctx, name, current, iterations, max_iterations, tgt) ==
    IF name \in DOMAIN current \/ iterations >= max_iterations THEN Ret(ctx, current)
    ELSE The({IF Raised(r) THEN r
              ELSE group_pages(r.ctx, name, r.val, iterations + 1, max_iterations, tgt) :
                 r \in {group_list(ctx, PageLimit, PageLimit * iterations, tgt)}})

\* for user in addusers: val is users_added, also when an exception ends
\* the loop
RECURSIVE add_users(_, _, _, _, _, _)
add_users(ctx, name, users, current, users_added, tgt) ==
    IF users = <<>> THEN Ret(ctx, users_added)
    ELSE IF Head(users) \in current
         THEN add_users(ctx, name, Tail(users), current, users_added, tgt)
    ELSE The({IF Raised(r) THEN [r EXCEPT !.val = users_added]
              ELSE add_users(r.ctx, name, Tail(users), current,
                             Append(users_added, Head(users)), tgt) :
                 r \in {group_adduser(ctx, name, Head(users), tgt)}})

\* for user in delusers
RECURSIVE remove_users(_, _, _, _, _, _)
remove_users(ctx, name, users, current, users_removed, tgt) ==
    IF users = <<>> THEN Ret(ctx, users_removed)
    ELSE IF Head(users) \notin current
         THEN remove_users(ctx, name, Tail(users), current, users_removed, tgt)
    ELSE The({IF Raised(r) THEN [r EXCEPT !.val = users_removed]
              ELSE remove_users(r.ctx, name, Tail(users), current,
                                Append(users_removed, Head(users)), tgt) :
                 r \in {group_removeuser(ctx, name, Head(users), tgt)}})

\* changes with the two lists of the membership loops, and changes once the
\* empty ones are popped
WithLists(changes, users_added, users_removed) ==
    ("users_added" :> users_added) @@ ("users_removed" :> users_removed) @@ changes
Popped(changes) ==
    [k \in {x \in DOMAIN changes :
              x \in {"users_added", "users_removed"} => changes[x] # <<>>} |-> changes[k]]

\* the second half of group_present: the members of a group that exists;
\* ret is what the first half has set
group_present_members(ctx, ret, name, addusers, delusers, max_iterations, tgt) ==
    IF addusers = <<>> /\ delusers = <<>> THEN Ret(ctx, ret)
    ELSE The({
        IF Raised(r3) THEN Except(r3, ret.comment, ret.changes)
        ELSE IF name \notin DOMAIN r3.val
             THEN Ret(r3.ctx, StateRet("False", ret.comment \o <<"could not find the list">>,
                                       ret.changes))
        ELSE The({
            IF Raised(r4) THEN Except(r4, ret.comment, WithLists(ret.changes, r4.val, <<>>))
            ELSE The({
                IF Raised(r5)
                THEN Except(r5, ret.comment, WithLists(ret.changes, r4.val, r5.val))
                ELSE Ret(r5.ctx, StateRet(ret.result, ret.comment,
                                          Popped(WithLists(ret.changes, r4.val, r5.val)))) :
                    r5 \in {remove_users(r4.ctx, name, delusers, r3.val[name], <<>>, tgt)}}) :
                r4 \in {add_users(r3.ctx, name, addusers, r3.val[name], <<>>, tgt)}}) :
            r3 \in {group_pages(ctx, name, <<>>, 0, max_iterations, tgt)}})

\* addusers and delusers are lists of user ids (empty for None)
group_present(ctx, name, addusers, delusers, max_iterations, test, tgt) ==
    The({IF Raised(r1) THEN Except(r1, <<>>, NoChanges)
         ELSE IF r1.val
              THEN group_present_members(r1.ctx,
                                         StateRet("True", <<"already exists">>, NoChanges),
                                         name, addusers, delusers, max_iterations, tgt)
         ELSE IF test
              THEN Ret(r1.ctx, StateRet("None", <<"would have been created">>,
                                        ("group_created" :> name)
                                          @@ ("members_added" :> addusers)))
         ELSE The({IF Raised(r2) THEN Except(r2, <<>>, NoChanges)
                   ELSE IF ~r2.val
                        THEN Ret(r2.ctx, StateRet("False", <<"something went wrong">>,
                                                  NoChanges))
                   ELSE group_present_members(r2.ctx,
                                              StateRet("True", <<"has been created">>,
                                                       "group_created" :> name),
                                              name, addusers, delusers, max_iterations, tgt) :
                      r2 \in {group_add(r1.ctx, name, tgt)}}) :
            r1 \in {group_exists(ctx, name, tgt)}})

(***************************************************************************)
(* app_installed.                                                          *)
(***************************************************************************)
\* need_reset = bool(add_groups or del_groups)
\* a faulty need_reset that sees no change of the groups
need_reset_never(add_groups, del_groups) == FALSE

need_reset(add_groups, del_groups) == add_groups # {} \/ del_groups # {}

\* changes with the keys the enabling reports
\* a faulty EnabledFor that takes the one group set for the other
EnabledFor_swapped(changes, name, add_groups, del_groups) ==
    [k \in {"enabled"} \cup (IF del_groups # {} THEN {"enabled_for"} ELSE {})
                       \cup (IF add_groups # {} THEN {"disabled_for"} ELSE {}) |->
        IF k = "enabled" THEN name
        ELSE IF k = "enabled_for" THEN del_groups
        ELSE add_groups] @@ changes

EnabledFor(changes, name, add_groups, del_groups) ==
    [k \in {"enabled"} \cup (IF add_groups # {} THEN {"enabled_for"} ELSE {})
                       \cup (IF del_groups # {} THEN {"disabled_for"} ELSE {}) |->
        IF k = "enabled" THEN name
        ELSE IF k = "enabled_for" THEN add_groups
        ELSE del_groups] @@ changes

\* the last part of app_installed: the enabled status and the groups of an
\* app that is installed; ret is what the parts before have set
app_installed_status(ctx, ret, name, force, enabled, groups, add_groups, del_groups, test, tgt) ==
    The({
        IF Raised(r4) THEN Except(r4, <<>>, ret.changes)
        ELSE IF enabled \/ need_reset(add_groups, del_groups)
             THEN IF test
                  THEN Ret(r4.ctx, StateRet("None", ret.comment \o <<"would have been enabled">>,
                                            EnabledFor(ret.changes, name, add_groups,
                                                       del_groups)))
                  ELSE The({
                      IF Raised(r5) THEN Except(r5, <<>>, ret.changes)
                      ELSE IF r5.val
                           THEN Ret(r5.ctx, StateRet(ret.result,
                                                     ret.comment \o <<"has been enabled">>,
                                                     EnabledFor(ret.changes, name, add_groups,
                                                                del_groups)))
                      ELSE Ret(r5.ctx, StateRet("False",
                                                ret.comment \o <<"something went wrong">>,
                                                ret.changes)) :
                          r5 \in {app_enable(r4.ctx, name, force, groups, tgt)}})
        ELSE IF test
             THEN Ret(r4.ctx, StateRet("None", ret.comment \o <<"would have been disabled">>,
                                       ("disabled" :> name) @@ ret.changes))
        ELSE The({
            IF Raised(r6) THEN Except(r6, <<>>, ret.changes)
            ELSE IF r6.val
                 THEN Ret(r6.ctx, StateRet(ret.result, ret.comment \o <<"has been disabled">>,
                                           ("disabled" :> name) @@ ret.changes))
            ELSE Ret(r6.ctx, StateRet("False", ret.comment \o <<"something went wrong">>,
                                      ret.changes)) :
                r6 \in {app_disable(r4.ctx, name, tgt)}}) :
            r4 \in {IF need_reset(add_groups, del_groups) /\ ~test
                    THEN app_disable(ctx, name, tgt) ELSE Ret(ctx, TRUE)}})

\* app_installed once the current state is read: current_groups is what
\* config_app_get returned (read only when the app is enabled and shall be)
app_installed_from(ctx, is_enabled, is_installed_, current_groups, name, force, enabled, groups, allow_unstable, test, tgt) ==
    LET wanted == {groups[k] : k \in 1..Len(groups)}
        add_groups == IF enabled /\ is_enabled
                      THEN IF current_groups.yes THEN wanted
                           ELSE IF groups # <<>> THEN wanted \ current_groups.groups
                           ELSE {}
                      ELSE IF enabled THEN wanted
                      ELSE {}
        del_groups == IF enabled /\ is_enabled /\ ~current_groups.yes
                      THEN IF groups # <<>> THEN current_groups.groups \ wanted
                           ELSE current_groups.groups
                      ELSE {}
        installed_as == ("installed" :> name)
                          @@ ((IF enabled THEN "enabled" ELSE "disabled") :> name)
    IN IF is_installed_ /\ enabled = is_enabled /\ ~need_reset(add_groups, del_groups)
       THEN Ret(ctx, StateRet("True", <<"already installed">>, NoChanges))
       ELSE IF is_installed_
            THEN app_installed_status(ctx, StateRet("True", <<>>, NoChanges), name, force,
                                      enabled, groups, add_groups, del_groups, test, tgt)
       ELSE IF test
            THEN Ret(ctx, StateRet("None", <<"would have been installed">>, installed_as))
       ELSE The({
           IF Raised(r3) THEN Except(r3, <<>>, NoChanges)
           ELSE IF ~r3.val
                THEN Ret(r3.ctx, StateRet("False", <<"something went wrong">>, NoChanges))
           ELSE IF ~need_reset(add_groups, del_groups)
                THEN Ret(r3.ctx, StateRet("True", <<"has been installed">>, installed_as))
           ELSE app_installed_status(r3.ctx,
                                     StateRet("True", <<"has been installed">>, installed_as),
                                     name, force, enabled, groups, add_groups, del_groups,
                                     test, tgt) :
               r3 \in {app_install(ctx, name, force, ~enabled, allow_unstable, tgt)}})

\* groups is a list of group names (empty for None)
app_installed(ctx, name, force, enabled, groups, allow_unstable, test, tgt) ==
    The({
        IF Raised(r1) THEN Except(r1, <<>>, NoChanges)
        ELSE The({
            IF Raised(r2) THEN Except(r2, <<>>, NoChanges)
            ELSE app_installed_from(r2.ctx, name \in r1.val.enabled,
                                    name \in r1.val.enabled \/ name \in r1.val.disabled,
                                    r2.val, name, force, enabled, groups, allow_unstable,
                                    test, tgt) :
                r2 \in {IF enabled /\ name \in r1.val.enabled
                        THEN config_app_get(r1.ctx, name, "enabled", NoTarget)
                        ELSE Ret(r1.ctx, Missing)}}) :
            r1 \in {app_list(ctx, tgt)}})

(***************************************************************************)
(* config_imported and the differ it uses.  A set of key texts stands for  *)
(* the sorted list of these (distinct) texts.                              *)
(***************************************************************************)
\* an entry {"new": .., "old": ..} of the diffs; Missing is NONE_VALUE
DiffEntry(new, old) ==
    [t |-> "entry", n |-> 0, s |-> "", d |-> <<>>, new |-> new, old |-> old]

\* RecursiveDictDiffer._get_diffs(dict1, dict2, ignore_missing_keys=True)
RECURSIVE get_diffs(_, _)
get_diffs(dict1, dict2) ==
    LET sub(p) == get_diffs(dict1.d[p], dict2.d[p])
        both(p) == IsDict(dict1.d[p]) /\ IsDict(dict2.d[p])
        keys == {p \in DOMAIN dict1.d :
                    \/ p \notin DOMAIN dict2.d
                    \/ /\ ~PyEq(dict1.d[p], dict2.d[p])
                       /\ both(p) => DOMAIN sub(p).d # {}}
    IN PyDict([p \in keys |->
                 IF p \notin DOMAIN dict2.d THEN DiffEntry(dict1.d[p], Missing)
                 ELSE IF both(p) THEN sub(p)
                 ELSE DiffEntry(dict1.d[p], dict2.d[p])])

\* RecursiveDictDiffer.changed(): the keys whose value is set on both sides
\* and differs
RECURSIVE changed(_, _)
changed(diffs, prefix) ==
    UNION {IF diffs.d[key].t = "dict" THEN changed(diffs.d[key], prefix \o <<key, ".">>)
           ELSE IF diffs.d[key].old.t # "missing" /\ ~IsDict(diffs.d[key].new)
                THEN {prefix \o <<key>>}
           ELSE {} : key \in DOMAIN diffs.d}

\* PatchedRecursiveDiffer._it("old", "new") without include_nested: the
\* nested calls are made without the separator
RECURSIVE it(_, _, _)
it(diffs, prefix, separator) ==
    UNION {IF diffs.d[key].t = "dict" THEN it(diffs.d[key], prefix \o <<key, separator>>, ".")
           ELSE IF diffs.d[key].old.t = "missing" THEN {prefix \o <<key>>}
           ELSE {} : key \in DOMAIN diffs.d}

added(diffs, separator) == it(diffs, <<>>, separator)

\* x.startswith("system")
StartsWithSystem(x) == x # <<>> /\ x[1] = "system"

\* the try block around the import; r1 is what config_list answered, source
\* the configuration or the path handed to config_import
config_imported_import(r1, diffs, source, test, tgt) ==
    IF Raised(r1) THEN Except(r1, <<>>, NoChanges)
    ELSE IF added(diffs, ".") = {} /\ changed(diffs, <<>>) = {}
         THEN Ret(r1.ctx, StateRet("True", <<"already imported">>, NoChanges))
    ELSE IF test
         THEN Ret(r1.ctx, StateRet("None", <<"would have been updated">>,
                                   ("added" :> added(diffs, "."))
                                     @@ ("changed" :> changed(diffs, <<>>))))
    ELSE Applied(config_import(r1.ctx, source, tgt), "has been updated",
                 ("added" :> added(diffs, ".")) @@ ("changed" :> changed(diffs, <<>>)))

\* the revert after a failed check; ret is what the import has set
config_imported_revert(ctx, ret, current, diffs, tgt) ==
    The({IF Raised(r3)
         THEN IF Caught(r3)
              THEN Ret(r3.ctx, StateRet("False", <<"tried to revert", r3.msg>>, ret.changes))
              ELSE r3
         \* the execution module has no function named delete
         ELSE IF {x \in added(diffs, "|||") : StartsWithSystem(x)} # {}
              THEN Raise(r3.ctx, "KeyError", "nextcloud_server.delete")
         ELSE Ret(r3.ctx, StateRet("False", <<"reverted most of the changes">>,
                                   ("added" :> {x \in added(diffs, ".") : ~StartsWithSystem(x)})
                                     @@ ("changed" :> {}))) :
            r3 \in {config_import(ctx, current, tgt)}})

\* a faulty config_imported_from that checks and reverts whatever force says
config_imported_from_unforced(r1, diffs, source, force, test, tgt) ==
    The({IF Raised(t) THEN t
         ELSE The({IF c1.val = "True" THEN Ret(c1.ctx, t.val)
                   ELSE IF Raised(r1) THEN Raise(c1.ctx, "UnboundLocalError", "current")
                   ELSE config_imported_revert(c1.ctx, t.val, r1.val, diffs, tgt) :
                      c1 \in {check(t.ctx, FALSE, tgt)}}) :
            t \in {config_imported_import(r1, diffs, source, test, tgt)}})

\* config_imported from the reading of the current configuration on
config_imported_from(r1, diffs, source, force, test, tgt) ==
    The({IF Raised(t) \/ force THEN t
         ELSE The({IF c1.val = "True" THEN Ret(c1.ctx, t.val)
                   \* current is not bound when config_list raised
                   ELSE IF Raised(r1) THEN Raise(c1.ctx, "UnboundLocalError", "current")
                   ELSE config_imported_revert(c1.ctx, t.val, r1.val, diffs, tgt) :
                      c1 \in {check(t.ctx, FALSE, tgt)}}) :
            t \in {config_imported_import(r1, diffs, source, test, tgt)}})

\* config is the desired configuration, Missing for None: then name is the
\* path of a file that holds it
config_imported(ctx, name, config, force, test, tgt) ==
    LET from_file == config.t = "missing"
        new_config == IF from_file THEN ctx.env.file ELSE config
        source == IF from_file THEN PyStr(name) ELSE config
    IN The({IF c0.val = "False" /\ ~force
            THEN Ret(c0.ctx, StateRet("False", <<"reports errors">>, NoChanges))
            ELSE IF from_file /\ new_config.t = "missing"
                 THEN Ret(c0.ctx, StateRet("False", <<"does not exist">>, NoChanges))
            ELSE The({config_imported_from(r1, IF Raised(r1) THEN EmptyDict
                                               ELSE get_diffs(new_config, r1.val),
                                           source, force, test, tgt) :
                         r1 \in {config_list(c0.ctx, "all", TRUE, tgt)}}) :
               c0 \in {check(ctx, TRUE, tgt)}})

(***************************************************************************)
(* The installation and the calls made against it.                         *)
(***************************************************************************)
\* versions an installation runs, and the releases an update check offers
InstalledVersions == {<<23, 0, 3>>, <<24, 0, 2>>, <<24, 0, 3>>, <<25, 0, 0>>}
Updates == {NoVersion, <<23, 0, 4>>, <<24, 0, 0>>}
\* positions of a group in the listing of all groups
Positions == {0, 700, 1200}

\* values a system setting is given
Values == {PyStr("x"), PyInt(1), PyBool(TRUE), PyFloat(5)}

SystemOnly(f) == PyDict([k \in {"system", "apps"} |-> IF k = "system" THEN PyDict(f)
                                                      ELSE EmptyDict])

\* an installation right after set-up, before anything was configured
Fresh ==
    [installed |-> TRUE, version |-> <<23, 0, 3>>, update |-> NoVersion,
     report |-> [apps |-> 0, count |-> "right"], tree |-> "sound", has_occ |-> TRUE,
     has_updater |-> TRUE,
     apps |-> [a \in Apps |-> [st |-> "absent", groups |-> {}]],
     config |-> SystemOnly(<<>>),
     gexists |-> {}, members |-> [g \in Groups |-> {}],
     gpos |-> [g \in Groups |-> 0],
     users |-> [u \in AllUsers |-> "absent"]]

NoCall ==
    [fn |-> "none", args |-> <<>>, test |-> FALSE, env |-> <<>>, pre |-> Fresh,
     calls |-> <<>>, exc |-> "none", msg |-> "",
     ret |-> StateRet("none", <<>>, NoChanges), val |-> FALSE]

\* what a call that is no consistency check and reads no file may meet
Envs == [fail : 0..MaxFail, checks : {<<>>}, file : {Missing}]

\* a state function was called: the installation is what the call left,
\* last is the record of the call.  Calls are synchronous and one at a
\* time: the next one starts when the caller has taken the result.
StateCall(fn, args, test, env, r) ==
    /\ last = NoCall
    /\ inst' = r.ctx.inst
    /\ last' = [fn |-> fn, args |-> args, test |-> test, env |-> env, pre |-> inst,
                calls |-> r.ctx.calls, exc |-> r.exc, msg |-> r.msg,
                ret |-> IF Raised(r) THEN StateRet("raised", <<>>, NoChanges) ELSE r.val,
                val |-> FALSE]

\* a function of the execution module was called directly
ModuleCall(fn, args, env, r) ==
    /\ last = NoCall
    /\ inst' = r.ctx.inst
    /\ last' = [fn |-> fn, args |-> args, test |-> FALSE, env |-> env, pre |-> inst,
                calls |-> r.ctx.calls, exc |-> r.exc, msg |-> r.msg,
                ret |-> StateRet("none", <<>>, NoChanges),
                val |-> IF Raised(r) THEN FALSE ELSE r.val]

\* installations that differ from a fresh one in one area
CoreInsts ==
    {[Fresh EXCEPT !.installed = i, !.update = u] : i \in BOOLEAN, u \in Updates}
AppInsts ==
    {[Fresh EXCEPT !.apps = [a \in Apps |-> [st |-> st, groups |-> {}]]] :
        st \in {"absent", "disabled", "enabled"}}
ConfigInsts ==
    {[Fresh EXCEPT !.config = SystemOnly("k1" :> v)] : v \in Values}
GroupInsts ==
    {[Fresh EXCEPT !.gexists = gex] : gex \in SUBSET Groups}
UserInsts ==
    {[Fresh EXCEPT !.users = [u \in AllUsers |-> IF u \in Users THEN us[u] ELSE "absent"]] :
        us \in [Users -> {"absent", "enabled", "disabled"}]}

Init ==
    /\ inst \in CoreInsts \cup AppInsts \cup ConfigInsts \cup GroupInsts \cup UserInsts
    /\ last = NoCall

Installed ==
    \E admin_pass \in {PyNone, PyStr("pw")}, test \in BOOLEAN, env \in Envs :
        StateCall("installed", [admin_pass |-> admin_pass], test, env,
                  installed(Context(inst, env), admin_pass, test, NoTarget))

Uptodate ==
    \E max_version \in {PyNone, PyInt(23), PyStr("23.0")}, no_backup \in {FALSE},
       test \in BOOLEAN, env \in Envs :
        StateCall("uptodate", [max_version |-> max_version, no_backup |-> no_backup],
                  test, env,
                  uptodate(Context(inst, env), max_version, no_backup, TRUE, test, NoTarget))

AppRemoved ==
    \E name \in Apps, test \in BOOLEAN, env \in Envs :
        StateCall("app_removed", [name |-> name], test, env,
                  app_removed(Context(inst, env), name, test, NoTarget))

ConfigSet ==
    \E value \in Values, test \in BOOLEAN, env \in Envs :
        StateCall("config_set", [name |-> <<"k1">>, value |-> value], test, env,
                  config_set(Context(inst, env), <<"k1">>, value, "", ":", test, NoTarget))

ConfigAbsent ==
    \E test \in BOOLEAN, env \in Envs :
        StateCall("config_absent", [name |-> <<"k1">>], test, env,
                  config_absent(Context(inst, env), <<"k1">>, ":", test, NoTarget))

GroupAbsent ==
    \E name \in Groups, test \in BOOLEAN, env \in Envs :
        StateCall("group_absent", [name |-> name], test, env,
                  group_absent(Context(inst, env), name, test, NoTarget))

UserAbsent ==
    \E name \in Users, test \in BOOLEAN, env \in Envs :
        StateCall("user_absent", [name |-> name], test, env,
                  user_absent(Context(inst, env), name, test, NoTarget))

UserPresent ==
    \E name \in Users, enabled \in BOOLEAN, init_password \in {PyNone, PyStr("pw")},
       test \in BOOLEAN, env \in Envs :
        StateCall("user_present",
                  [name |-> name, enabled |-> enabled, init_password |-> init_password],
                  test, env,
                  user_present(Context(inst, env), name, enabled, init_password, test,
                               NoTarget))

\* the caller takes the result of the call; nothing of it is kept
Return ==
    /\ last # NoCall
    /\ last' = NoCall
    /\ UNCHANGED inst

Next ==
    \/ Return
    \/ Installed
    \/ Uptodate
    \/ AppRemoved
    \/ ConfigSet
    \/ ConfigAbsent
    \/ GroupAbsent
    \/ UserAbsent
    \/ UserPresent

Spec == Init /\ [][Next]_vars

(***************************************************************************)
(* Groups: group_present, the existence probe, and the calls that create   *)
(* accounts and memberships.                                               *)
(***************************************************************************)
\* every ordinary account exists; the listing has the first group at any
\* position
GroupInsts0 ==
    {[Fresh EXCEPT !.users = [u \in AllUsers |-> IF u \in Users THEN "enabled" ELSE "absent"],
                   !.gexists = gex,
                   !.gpos = [g \in Groups |-> IF g = GroupNames[1] THEN pos ELSE 0]] :
        gex \in SUBSET Groups, pos \in Positions}

InitGroup ==
    /\ inst \in GroupInsts0
    /\ last = NoCall

UserLists == {<<>>} \cup {<<u>> : u \in Users}

GroupPresent ==
    \E name \in Groups, addusers \in UserLists, delusers \in UserLists,
       max_iterations \in {1, 2, 3}, test \in BOOLEAN, env \in Envs :
        StateCall("group_present",
                  [name |-> name, addusers |-> addusers, delusers |-> delusers,
                   max_iterations |-> max_iterations],
                  test, env,
                  group_present(Context(inst, env), name, addusers, delusers,
                                max_iterations, test, NoTarget))

GroupExists ==
    \E groupid \in Groups, env \in Envs :
        ModuleCall("group_exists", [groupid |-> groupid], env,
                   group_exists(Context(inst, env), groupid, NoTarget))

GroupAdduser ==
    \E group \in Groups, user \in AllUsers, env \in Envs :
        ModuleCall("group_adduser", [group |-> group, user |-> user], env,
                   group_adduser(Context(inst, env), group, user, NoTarget))

UserAdd ==
    \E user_id \in AllUsers, env \in Envs :
        ModuleCall("user_add", [user_id |-> user_id], env,
                   user_add(Context(inst, env), user_id, PyStr("pw"), PyNone, NoTarget))

NextGroup ==
    \/ Return
    \/ GroupPresent
    \/ GroupExists
    \/ GroupAdduser
    \/ UserAdd

SpecGroup == InitGroup /\ [][NextGroup]_vars

(***************************************************************************)
(* Apps: app_installed and app_removed.                                    *)
(***************************************************************************)
\* groups an app is restricted to
AppGroups == {"g1", "g2"}

AppInsts0 ==
    {[Fresh EXCEPT !.apps = [a \in Apps |-> [st |-> st, groups |-> gs]]] :
        st \in {"absent", "disabled", "enabled"}, gs \in {{}}}
    \cup {[Fresh EXCEPT !.apps = [a \in Apps |-> [st |-> "enabled", groups |-> {g}]]] :
            g \in AppGroups}

InitApp ==
    /\ inst \in AppInsts0
    /\ last = NoCall

AppInstalled ==
    \E name \in Apps, force \in BOOLEAN, enabled \in BOOLEAN,
       groups \in {<<>>, <<"g1">>, <<"g1", "g2">>}, test \in BOOLEAN, env \in Envs :
        StateCall("app_installed",
                  [name |-> name, force |-> force, enabled |-> enabled, groups |-> groups],
                  test, env,
                  app_installed(Context(inst, env), name, force, enabled, groups, FALSE,
                                test, NoTarget))

NextApp ==
    \/ Return
    \/ AppInstalled
    \/ AppRemoved

SpecApp == InitApp /\ [][NextApp]_vars

(***************************************************************************)
(* Configuration import: config_imported and config_import.                *)
(***************************************************************************)
Tree(sys, apps) == PyDict([k \in {"system", "apps"} |-> IF k = "system" THEN PyDict(sys)
                                                        ELSE PyDict(apps)])

\* desired configurations: a new system string, a system float, a float in
\* an app's settings, a float below a system key next to a list and an
\* integer, a float under a scope named app
Configs ==
    {PyDict("system" :> PyDict("k2" :> PyStr("x"))),
     PyDict("system" :> PyDict("k1" :> PyFloat(5))),
     PyDict("apps" :> PyDict("a1" :> PyDict("e" :> PyFloat(5)))),
     PyDict("system" :> PyDict(("sub" :> PyDict(("e" :> PyFloat(15)) @@ ("k2" :> PyList(1))))
                                 @@ ("k1" :> PyInt(1)))),
     PyDict("app" :> PyDict("a1" :> PyDict("e" :> PyFloat(5))))}

ImportVersions == {<<23, 0, 3>>, <<24, 0, 3>>}

ImportInsts0 ==
    {[Fresh EXCEPT !.version = v, !.config = Tree(sys, <<>>)] :
        v \in ImportVersions,
        sys \in {<<>>, "k1" :> PyInt(1), "k1" :> PyFloat(5)}}

InitImport ==
    /\ inst \in ImportInsts0
    /\ last = NoCall

\* what the consistency check finds, run after run (nothing listed: no
\* errors), and the file a path names
ImportEnvs ==
    [fail : 0..MaxFail, checks : {<<>>, <<FALSE>>, <<TRUE, FALSE>>}, file : {Missing}]
FileEnvs ==
    [fail : {0}, checks : {<<>>, <<TRUE, FALSE>>},
     file : {Missing, PyDict("system" :> PyDict("k2" :> PyStr("x")))}]

ConfigImported ==
    \/ \E config \in Configs, force \in BOOLEAN, test \in BOOLEAN, env \in ImportEnvs :
          StateCall("config_imported", [config |-> config, force |-> force], test, env,
                    config_imported(Context(inst, env), "f1", config, force, test, NoTarget))
    \/ \E force \in BOOLEAN, test \in BOOLEAN, env \in FileEnvs :
          StateCall("config_imported", [config |-> Missing, force |-> force], test, env,
                    config_imported(Context(inst, env), "f1", Missing, force, test, NoTarget))

ConfigImport ==
    \E config \in Configs, env \in Envs :
        ModuleCall("config_import", [config |-> config], env,
                   config_import(Context(inst, env), config, NoTarget))

NextImport ==
    \/ Return
    \/ ConfigImported
    \/ ConfigImport

SpecImport == InitImport /\ [][NextImport]_vars

(***************************************************************************)
(* Calls of occ itself and of two functions that hand it flags and         *)
(* parameters.                                                             *)
(***************************************************************************)
OccInsts0 ==
    {Fresh,
     [Fresh EXCEPT !.config = SystemOnly("k1" :> PyStr("x"))],
     [Fresh EXCEPT !.apps = [a \in Apps |-> [st |-> "disabled", groups |-> {}]]],
     [Fresh EXCEPT !.tree = "malformed"],
     [Fresh EXCEPT !.has_occ = FALSE],
     [Fresh EXCEPT !.users = [u \in AllUsers |-> IF u \in Users THEN "enabled" ELSE "absent"]]}

InitOcc ==
    /\ inst \in OccInsts0
    /\ last = NoCall

\* commands with their arguments, parameters and flags
OccCommands ==
    {[command |-> "config:system:set", arguments |-> <<"k1">>,
      parameters |-> <<<<"value", PyStr("hello world")>>, <<"type", PyStr("string")>>>>,
      flags |-> <<"update-only">>],
     [command |-> "app:enable", arguments |-> <<"a1">>,
      parameters |-> <<<<"groups", PyStr("g2")>>, <<"groups", PyStr("g1")>>,
                       <<"groups", PyStr("g2")>>>>,
      flags |-> <<"force">>],
     [command |-> "group:list", arguments |-> <<>>,
      parameters |-> <<<<"limit", PyInt(500)>>, <<"offset", PyInt(0)>>>>,
      flags |-> <<>>],
     [command |-> "config:system:get", arguments |-> <<"sub", "e">>,
      parameters |-> <<>>, flags |-> <<"-v">>],
     [command |-> "status", arguments |-> <<>>, parameters |-> <<>>, flags |-> <<>>]}

OccEnvs == [fail : {0, 1}, checks : {<<>>}, file : {Missing}]

Occ ==
    \E c \in OccCommands, ensure_apc \in {PyNone, PyBool(TRUE), PyBool(FALSE)},
       json \in BOOLEAN, raise_error \in BOOLEAN, expect_error \in BOOLEAN,
       env \in OccEnvs :
        ModuleCall("occ",
                   [command |-> c.command, arguments |-> c.arguments,
                    parameters |-> c.parameters, flags |-> c.flags,
                    ensure_apc |-> ensure_apc, json |-> json,
                    raise_error |-> raise_error, expect_error |-> expect_error],
                   env,
                   occ(Context(inst, env), c.command, c.arguments, c.parameters, c.flags,
                       [OccDefaults EXCEPT !.ensure_apc = ensure_apc, !.json = json,
                                           !.raise_error = raise_error,
                                           !.expect_error = expect_error]))

ConfigSystemSet ==
    \E value \in {PyStr("hello world"), PyInt(1)}, vtype \in {"string", "integer", "text"},
       update_only \in BOOLEAN, env \in OccEnvs :
        ModuleCall("config_system_set",
                   [name |-> <<"k1">>, value |-> value, vtype |-> vtype,
                    update_only |-> update_only],
                   env,
                   config_system_set(Context(inst, env), <<"k1">>, value, vtype,
                                     update_only, ":", NoTarget))

AppEnable ==
    \E groups \in {<<>>, <<"g1">>, <<"g2", "g1">>}, force \in BOOLEAN, env \in OccEnvs :
        ModuleCall("app_enable", [app |-> "a1", groups |-> groups, force |-> force], env,
                   app_enable(Context(inst, env), "a1", force, groups, NoTarget))

FilesRepairTree ==
    \E dry_run \in BOOLEAN, verbosity \in 0..3, env \in OccEnvs :
        ModuleCall("files_repair_tree", [dry_run |-> dry_run, verbosity |-> verbosity], env,
                   files_repair_tree(Context(inst, env), dry_run, verbosity, NoTarget))

PreviewRepair ==
    \E dry_run \in BOOLEAN, verbosity \in 0..3, delete \in BOOLEAN, env \in OccEnvs :
        ModuleCall("preview_repair",
                   [dry_run |-> dry_run, verbosity |-> verbosity, delete |-> delete], env,
                   preview_repair(Context(inst, env), dry_run, verbosity, delete, NoTarget))

\* config_set with and without a vtype ("" for None)
ConfigSetVtype ==
    \E value \in Values, vtype \in {"", "string", "text"}, test \in BOOLEAN, env \in OccEnvs :
        StateCall("config_set", [name |-> <<"k1">>, value |-> value, vtype |-> vtype],
                  test, env,
                  config_set(Context(inst, env), <<"k1">>, value, vtype, ":", test, NoTarget))

UserExists ==
    \E user_id \in Users, env \in OccEnvs :
        ModuleCall("user_exists", [user_id |-> user_id], env,
                   user_exists(Context(inst, env), user_id, NoTarget))

NextOcc ==
    \/ Return
    \/ UserExists
    \/ Occ
    \/ ConfigSystemSet
    \/ ConfigSetVtype
    \/ AppEnable
    \/ FilesRepairTree
    \/ PreviewRepair

SpecOcc == InitOcc /\ [][NextOcc]_vars

(***************************************************************************)
(* All state functions, each called once on an installation prepared for   *)
(* it.                                                                     *)
(***************************************************************************)
\* installations with a group that has a member
MemberInsts ==
    {[Fresh EXCEPT !.users = [u \in AllUsers |-> IF u \in Users THEN "enabled" ELSE "absent"],
                   !.gexists = Groups,
                   !.members = [g \in Groups |-> {m}]] : m \in Users}

StateInsts ==
    CoreInsts \cup ConfigInsts \cup UserInsts \cup GroupInsts0 \cup MemberInsts
      \cup AppInsts0 \cup ImportInsts0

InitStates ==
    /\ inst \in StateInsts
    /\ last = NoCall

\* a call on a prepared installation
FirstCall(call) == inst \in StateInsts /\ call

NextStates ==
    \/ Return
    \/ FirstCall(Installed)
    \/ FirstCall(Uptodate)
    \/ FirstCall(AppRemoved)
    \/ FirstCall(ConfigSet)
    \/ FirstCall(ConfigAbsent)
    \/ FirstCall(GroupAbsent)
    \/ FirstCall(UserAbsent)
    \/ FirstCall(UserPresent)
    \/ FirstCall(GroupPresent)
    \/ FirstCall(AppInstalled)
    \/ FirstCall(ConfigImported)

SpecStates == InitStates /\ [][NextStates]_vars

(***************************************************************************)
(* Passwords and malformed calls: the functions that take a password,      *)
(* directly or as the key of a pillar, and the ones that reject a call.    *)
(***************************************************************************)
PillarKeys == {"nextcloud:db", "nextcloud:admin", "nextcloud:user"}
\* a pillar holds a password under every key or has none of the keys
Pillars == {[k \in PillarKeys |-> v] : v \in {PyNone, PyStr("pillar secret")}}

SecretEnvs == [fail : 0..2, checks : {<<>>}, file : {Missing}, pillar : Pillars]

\* a new and a finished installation, one with an account, and ones that
\* name their database type
SecretInsts ==
    {Fresh, [Fresh EXCEPT !.installed = FALSE],
     [Fresh EXCEPT !.users = [u \in AllUsers |-> IF u \in Users THEN "enabled" ELSE "absent"]]}
    \cup {[Fresh EXCEPT !.config = SystemOnly("dbtype" :> PyStr(t))] : t \in {"sqlite", "mysql"}}

InitSecret ==
    /\ inst \in SecretInsts
    /\ last = NoCall

Install ==
    \E database \in {PyNone, PyStr("sqlite"), PyStr("mysql")},
       database_pass \in {PyNone, PyStr("db secret")},
       database_pass_pillar \in {PyNone, PyStr("nextcloud:db")},
       admin_pass \in {PyNone, PyStr("admin secret")},
       admin_pass_pillar \in {PyNone, PyStr("nextcloud:admin")}, env \in SecretEnvs :
        ModuleCall("install",
                   [database |-> database, database_pass |-> database_pass,
                    database_pass_pillar |-> database_pass_pillar,
                    admin_pass |-> admin_pass, admin_pass_pillar |-> admin_pass_pillar],
                   env,
                   install(Context(inst, env), database, database_pass,
                           database_pass_pillar, admin_pass, admin_pass_pillar, NoTarget))

DbConvertType ==
    \E dbtype \in {"mysql", "pgsql", "oci", "sqlite"},
       password \in {PyNone, PyStr("db secret")},
       password_pillar \in {PyNone, PyStr("nextcloud:db")},
       clear_schema \in BOOLEAN, env \in SecretEnvs :
        ModuleCall("db_convert_type",
                   [dbtype |-> dbtype, password |-> password,
                    password_pillar |-> password_pillar, clear_schema |-> clear_schema],
                   env,
                   db_convert_type(Context(inst, env), dbtype, "nextcloud", "localhost",
                                   "nextcloud", password, password_pillar, clear_schema,
                                   NoTarget))

UserPasswords == {PyNone, PyStr("user secret")}
UserPillars == {PyNone, PyStr("nextcloud:user")}

UserAddPassword ==
    \E user_id \in Users \cup {"u 1"}, password \in UserPasswords,
       password_pillar \in UserPillars, env \in SecretEnvs :
        ModuleCall("user_add",
                   [user_id |-> user_id, password |-> password,
                    password_pillar |-> password_pillar],
                   env,
                   user_add(Context(inst, env), user_id, password, password_pillar,
                            NoTarget))

UserResetpassword ==
    \E user_id \in Users, password \in UserPasswords, password_pillar \in UserPillars,
       env \in SecretEnvs :
        ModuleCall("user_resetpassword",
                   [user_id |-> user_id, password |-> password,
                    password_pillar |-> password_pillar],
                   env,
                   user_resetpassword(Context(inst, env), user_id, password,
                                      password_pillar, NoTarget))

UserAddAppPassword ==
    \E user_id \in Users, password \in UserPasswords, password_pillar \in UserPillars,
       env \in SecretEnvs :
        ModuleCall("user_add_app_password",
                   [user_id |-> user_id, password |-> password,
                    password_pillar |-> password_pillar],
                   env,
                   user_add_app_password(Context(inst, env), user_id, password,
                                         password_pillar, NoTarget))

LogManage ==
    \E backend \in {"", "syslog", "journal"}, level \in {"", "info", "verbose"},
       timezone \in {"", "UTC"}, env \in SecretEnvs :
        ModuleCall("log_manage",
                   [backend |-> backend, level |-> level, timezone |-> timezone], env,
                   log_manage(Context(inst, env), backend, level, timezone, NoTarget))

NextSecret ==
    \/ Return
    \/ Install
    \/ DbConvertType
    \/ UserAddPassword
    \/ UserResetpassword
    \/ UserAddAppPassword
    \/ LogManage
    \/ ConfigSystemSet

SpecSecret == InitSecret /\ [][NextSecret]_vars

(***************************************************************************)
(* Updates: update_check, is_uptodate and uptodate with a restriction.     *)
(***************************************************************************)
UpdateInsts ==
    {[Fresh EXCEPT !.update = u, !.report = [apps |-> a, count |-> c]] :
        u \in Updates, a \in 0..1, c \in {"right", "wrong", "missing"}}

InitUpdate ==
    /\ inst \in UpdateInsts
    /\ last = NoCall

\* no restriction, a major version as an integer and as a string, a
\* major.minor version as a float and as a string
MaxVersions == {PyNone, PyInt(23), PyStr("23"), PyFloat(230), PyStr("23.0")}

UpdateCheck ==
    \E env \in Envs :
        ModuleCall("update_check", <<>>, env, update_check(Context(inst, env), NoTarget))

IsUptodate ==
    \E max_version \in MaxVersions, env \in Envs :
        ModuleCall("is_uptodate", [max_version |-> max_version], env,
                   is_uptodate(Context(inst, env), max_version, NoTarget))

UptodateRestricted ==
    \E max_version \in MaxVersions, test \in BOOLEAN, env \in Envs :
        StateCall("uptodate", [max_version |-> max_version, no_backup |-> FALSE],
                  test, env,
                  uptodate(Context(inst, env), max_version, FALSE, TRUE, test, NoTarget))

NextUpdate ==
    \/ Return
    \/ UpdateCheck
    \/ IsUptodate
    \/ UptodateRestricted

SpecUpdate == InitUpdate /\ [][NextUpdate]_vars

(***************************************************************************)
(* Properties.  They are stated over last, the record of the most recent   *)
(* call, and inst, the installation that call left.                        *)
(***************************************************************************)
\* the positions, in the call, of the invocations of the sub-commands cmds
Issued(cmds) == {k \in 1..Len(last.calls) : last.calls[k].cmd \in cmds}

\* no invocation of the call exited non-zero for a reason of its own
NoFault == last.env.fail = 0 \/ last.env.fail > Len(last.calls)

SimpleStates ==
    {"installed", "uptodate", "app_removed", "config_set", "config_absent",
     "group_absent", "user_absent", "user_present"}

MutatingCmds ==
    {"maintenance:install", "updater", "app:remove", "config:system:set",
     "config:system:delete", "group:delete", "user:delete", "user:add", "user:enable",
     "user:disable"}

\* max_version admits the release v: the parts it names are not exceeded
Admits(max_version, v) ==
    CASE max_version.t = "null" -> TRUE
      [] max_version.t = "int" -> v[1] <= max_version.n \div 10
      [] max_version.s = "23.0" -> v[1] < 23 \/ (v[1] = 23 /\ v[2] <= 0)
      [] OTHER -> FALSE

\* the installation the call started from is in the state the call asks for
\* (a setting equals the wanted value as Python's == has it)
AlreadyDesired ==
    CASE last.fn = "installed" -> last.pre.installed
      [] last.fn = "uptodate" ->
           last.pre.update = NoVersion \/ ~Admits(last.args.max_version, last.pre.update)
      [] last.fn = "app_removed" -> last.pre.apps[last.args.name].st = "absent"
      [] last.fn = "config_set" ->
           PyEq(last.args.value, GetPath(last.pre.config, <<"system">> \o last.args.name))
      [] last.fn = "config_absent" ->
           GetPath(last.pre.config, <<"system">> \o last.args.name).t = "missing"
      [] last.fn = "group_absent" -> last.args.name \notin last.pre.gexists
      [] last.fn = "user_absent" -> last.pre.users[last.args.name] = "absent"
      [] last.fn = "user_present" ->
           last.pre.users[last.args.name]
             = (IF last.args.enabled THEN "enabled" ELSE "disabled")
      [] OTHER -> FALSE

\* C1: each of installed, uptodate, app_removed, config_set, config_absent,
\* group_absent, user_absent and user_present, called (in test mode or in
\* real mode) on an installation that is already in the desired state and
\* whose reads do not fail, returns result True with empty changes,
\* issues no mutating invocation and leaves the installation as it was.
C1_AlreadyDesiredIsNoOp ==
    (last.fn \in SimpleStates /\ NoFault /\ AlreadyDesired)
      => /\ last.ret.result = "True"
         /\ DOMAIN last.ret.changes = {}
         /\ Issued(MutatingCmds) = {}
         /\ inst = last.pre

\* a real run of user_present on an account that is there and enabled as
\* wanted
C1_Witness ==
    /\ last.fn = "user_present"
    /\ ~last.test
    /\ NoFault
    /\ AlreadyDesired
    /\ Len(last.calls) = 2
    /\ last.ret.result = "True"

GroupChanges ==
    {k \in Issued({"group:add", "group:adduser", "group:removeuser"}) :
        ~(last.calls[k].cmd = "group:removeuser" /\ last.calls[k].args[2] = Sentinel)}

\* group_present has something to do: the group is missing, a user to add
\* is no member or a user to remove is one
GroupChangePending ==
    \/ last.args.name \notin last.pre.gexists
    \/ \E k \in 1..Len(last.args.addusers) :
          last.args.addusers[k] \notin last.pre.members[last.args.name]
    \/ \E k \in 1..Len(last.args.delusers) :
          last.args.delusers[k] \in last.pre.members[last.args.name]

\* C3: group_present in test mode issues no group:add, group:adduser or
\* group:removeuser invocation, whatever the state of the group, and returns
\* result None, never True with applied changes, whenever a change is
\* pending.
C3_GroupPresentDryRun ==
    (last.fn = "group_present" /\ last.test)
      => /\ GroupChanges = {}
         /\ (NoFault /\ GroupChangePending /\ last.exc = "none")
              => last.ret.result = "None"

\* C10: group_exists issues the one probe, the removal of the sentinel
\* account from the group.  On "group not found" it returns False, on "user
\* not found" it returns True, on exit code 0 and on any other output it
\* raises.  The probe changes the membership of no user other than the
\* sentinel account, and changes nothing at all unless it exits with code 0.
C10_ProbeOutcomes ==
    last.fn = "group_exists"
      => /\ Len(last.calls) = 1
         /\ last.calls[1].cmd = "group:removeuser"
         /\ last.calls[1].args = <<last.args.groupid, Sentinel>>
         /\ last.calls[1].rc = 0 => last.exc = "CommandExecutionError"
         /\ (last.calls[1].rc # 0 /\ last.calls[1].stdout = "group not found")
              => (last.exc = "none" /\ last.val = FALSE)
         /\ (last.calls[1].rc # 0 /\ last.calls[1].stdout = "user not found")
              => (last.exc = "none" /\ last.val = TRUE)
         /\ (last.calls[1].rc # 0
               /\ last.calls[1].stdout \notin {"group not found", "user not found"})
              => last.exc = "CommandExecutionError"
         /\ \A g \in Groups : inst.members[g] \ {Sentinel} = last.pre.members[g] \ {Sentinel}
         /\ last.calls[1].rc # 0 => inst = last.pre

\* the sentinel account exists and belongs to the group: the probe succeeds,
\* takes it out of the group and raises
C10_Witness ==
    /\ last.fn = "group_exists"
    /\ Sentinel \in last.pre.members[last.args.groupid]
    /\ last.calls[1].rc = 0
    /\ Sentinel \notin inst.members[last.args.groupid]
    /\ last.exc = "CommandExecutionError"

\* C10 as the specification has it: whatever its outcome, the probe changes
\* the membership of no user in any group.
C10_ProbeChangesNoMembership ==
    last.fn = "group_exists" => inst.members = last.pre.members

\* the app is not as app_installed shall have it: it is not installed, or
\* enabled where it shall be disabled (or the reverse), or enabled as it
\* shall be but for other groups than wanted
AppDiffers ==
    LET app == last.pre.apps[last.args.name]
        wanted == {last.args.groups[k] : k \in 1..Len(last.args.groups)}
    IN \/ app.st = "absent"
       \/ last.args.enabled # (app.st = "enabled")
       \/ (last.args.enabled /\ app.groups # wanted)

\* C5: app_installed in test mode issues no app:install, app:disable or
\* app:enable invocation, and returns result None with non-empty changes
\* whenever the installation, the enabled status or the group restriction
\* of the app differs from the desired one (its reads not failing).
C5_AppInstalledDryRun ==
    (last.fn = "app_installed" /\ last.test)
      => /\ Issued({"app:install", "app:disable", "app:enable"}) = {}
         /\ inst = last.pre
         /\ (NoFault /\ AppDiffers)
              => (last.ret.result = "None" /\ DOMAIN last.ret.changes # {})

\* a dry run on an app that is enabled for one group and shall be enabled
\* for another
C5_Witness ==
    /\ last.fn = "app_installed"
    /\ last.test
    /\ NoFault
    /\ last.pre.apps[last.args.name] = [st |-> "enabled", groups |-> {"g2"}]
    /\ last.args.enabled
    /\ last.args.groups = <<"g1">>
    /\ last.ret.result = "None"
    /\ "enabled_for" \in DOMAIN last.ret.changes

\* the (path, value) pairs of a configuration tree: the values of its keys
\* that are no dictionaries.  A list is one value, whatever its items.
RECURSIVE Leaves(_, _)
Leaves(tree, path) ==
    IF tree.t = "dict"
    THEN UNION {Leaves(tree.d[k], Append(path, k)) : k \in DOMAIN tree.d}
    ELSE IF tree.t = "missing" THEN {}
    ELSE {<<path, tree>>}

FloatLeaves(tree) == {l \in Leaves(tree, <<>>) : l[2].t = "float"}

\* the configuration a call to config_imported shall bring about
DesiredConfig == IF last.args.config.t = "missing" THEN last.env.file ELSE last.args.config

\* its keys the installation did not have, and those it held with another value
AddedLeaves ==
    {l \in Leaves(DesiredConfig, <<>>) : GetPath(last.pre.config, l[1]).t = "missing"}
ChangedLeaves ==
    {l \in Leaves(DesiredConfig, <<>>) :
        /\ GetPath(last.pre.config, l[1]).t # "missing"
        /\ ~PyEq(l[2], GetPath(last.pre.config, l[1]))}

\* every consistency check of the call passed
ChecksPass == \A k \in Issued({"check"}) : last.calls[k].rc = 0

\* C4: config_imported in test mode issues no config:import and no
\* config:system:delete invocation, whatever its consistency checks return;
\* when the desired configuration adds or changes keys (and the call is not
\* refused), it returns result None with added and changed keys as changes.
C4_ConfigImportedDryRun ==
    (last.fn = "config_imported" /\ last.test)
      => /\ Issued({"config:import", "config:system:delete"}) = {}
         /\ (NoFault /\ ChecksPass /\ AddedLeaves \cup ChangedLeaves # {})
              => /\ last.ret.result = "None"
                 /\ DOMAIN last.ret.changes = {"added", "changed"}
                 /\ last.ret.changes["added"] \cup last.ret.changes["changed"] # {}

\* the case of the rollback: an import succeeded, a consistency check after
\* it did not, and no other invocation of the call failed
RollbackCase ==
    /\ last.fn = "config_imported"
    /\ ~last.test
    /\ ~last.args.force
    /\ \E k \in Issued({"config:import"}) :
          /\ last.calls[k].rc = 0
          /\ \E j \in Issued({"check"}) : j > k /\ last.calls[j].rc # 0
    /\ \A k \in 1..Len(last.calls) : last.calls[k].cmd # "check" => last.calls[k].rc = 0

\* C6: in the case of the rollback config_imported imports the snapshot it
\* read before the import, deletes every system key the import added with a
\* config:system:delete invocation of its own, and returns result False
\* with changes that list as added the additions outside the system scope
\* only and no changed keys.
C6_RollbackDeletesAddedKeys ==
    RollbackCase
      => /\ Cardinality(Issued({"config:import"})) = 2
         /\ \A l \in AddedLeaves :
               l[1][1] = "system"
                 => \E k \in Issued({"config:system:delete"}) :
                       last.calls[k].args = Tail(l[1])
         /\ last.exc = "none"
         /\ last.ret.result = "False"
         /\ DOMAIN last.ret.changes = {"added", "changed"}
         /\ \A x \in last.ret.changes["added"] : x[1] # "system"
         /\ last.ret.changes["changed"] = {}

\* the scalar set invocations of the call that carry the float l
SetsOf(l) ==
    {k \in Issued({"config:system:set", "config:app:set"}) :
        /\ last.calls[k].args = Tail(l[1])
        /\ ParamVal(last.calls[k].params, "value") = StrOf(l[2])}

\* the installation runs a release whose config:import refuses floats
WorkaroundApplies == VersionLess(last.pre.version, FixedVersion)

\* C7: config_import, given the configuration as data.  Below 24.0.3 the
\* payload of config:import has no key left whose value is a float, and for
\* every float of the system scope exactly one config:system:set invocation
\* with type double and that value is issued once the import has
\* succeeded.  From 24.0.3 on the payload is the configuration as given
\* and no scalar set invocation is issued.
C7_FloatWorkaround ==
    last.fn = "config_import"
      => /\ \A k \in Issued({"config:import"}) :
               /\ last.calls[k].stdin.t = "dict"
               /\ WorkaroundApplies => FloatLeaves(last.calls[k].stdin) = {}
               /\ ~WorkaroundApplies => last.calls[k].stdin = last.args.config
         /\ ~WorkaroundApplies => Issued({"config:system:set", "config:app:set"}) = {}
         /\ (WorkaroundApplies /\ last.exc = "none")
              => \A l \in FloatLeaves(last.args.config) :
                    l[1][1] = "system"
                      => /\ Cardinality(SetsOf(l)) = 1
                         /\ \A k \in SetsOf(l) :
                               /\ last.calls[k].cmd = "config:system:set"
                               /\ ParamVal(last.calls[k].params, "type") = PyStr("double")

\* the float of the system scope, nested below a key, has been taken out of
\* the payload and set by an invocation of its own
C7_Witness ==
    /\ last.fn = "config_import"
    /\ WorkaroundApplies
    /\ last.exc = "none"
    /\ GetPath(last.args.config, <<"system", "sub", "e">>) = PyFloat(15)
    /\ \E k \in Issued({"config:import"}) :
          /\ GetPath(last.calls[k].stdin, <<"system", "sub", "e">>).t = "missing"
          /\ GetPath(last.calls[k].stdin, <<"system", "k1">>) = PyInt(1)
    /\ Cardinality(Issued({"config:system:set"})) = 1
    /\ GetPath(inst.config, <<"system", "sub", "e">>) = PyFloat(15)

\* C8: when the workaround applies and the import has succeeded, every
\* float of the system scope or of an app's settings is set by exactly one
\* scalar set invocation that carries its value, or config_import fails
\* with an error.
C8_EveryRemovedFloatIsSet ==
    (/\ last.fn = "config_import"
     /\ WorkaroundApplies
     /\ \E k \in Issued({"config:import"}) : last.calls[k].rc = 0)
      => \/ last.exc # "none"
         \/ \A l \in FloatLeaves(last.args.config) :
               l[1][1] \in {"system", "apps"} => Cardinality(SetsOf(l)) = 1

\* C9: in a call to config_import (made directly or by config_imported)
\* every scalar set invocation comes after a config:import invocation, and
\* the last config:import before it exited with code 0; after a failed
\* config:import no scalar set invocation follows.
C9_SetsFollowImport ==
    last.fn \in {"config_import", "config_imported"}
      => \A k \in Issued({"config:system:set", "config:app:set"}) :
            /\ \E j \in Issued({"config:import"}) : j < k
            /\ \A j \in Issued({"config:import"}) :
                  (j < k /\ \A m \in Issued({"config:import"}) : m < k => m <= j)
                    => last.calls[j].rc = 0

\* a float was set after the import had succeeded
C9_Witness ==
    /\ last.fn = "config_import"
    /\ \E j \in Issued({"config:import"}), k \in Issued({"config:system:set"}) :
          /\ j < k
          /\ last.calls[j].rc = 0
          /\ last.calls[k].rc = 0
          /\ ParamVal(last.calls[k].params, "type") = PyStr("double")
    /\ GetPath(last.pre.config, <<"system", "k1">>).t = "int"
    /\ GetPath(inst.config, <<"system", "k1">>) = PyFloat(5)

\* the group:list invocations of the call, and the place of one among them
ListCalls == Issued({"group:list"})
RankOf(k) == Cardinality({j \in ListCalls : j <= k})

\* the page of group:list, counted from 1, that lists the group of the call
PageOfGroup == (inst.gpos[last.args.name] \div 500) + 1

\* group_present got as far as looking up the members: the group is there
\* (found or created), there are users to add or to remove, and no
\* invocation up to the last group:list failed
MemberLookup ==
    /\ last.fn = "group_present"
    /\ last.args.name \in inst.gexists
    /\ last.args.addusers # <<>> \/ last.args.delusers # <<>>
    /\ ListCalls # {}
    /\ \A k \in 1..Len(last.calls) :
          (\E j \in ListCalls : k <= j)
            => (last.calls[k].rc = 0 \/ last.calls[k].args = <<last.args.name, Sentinel>>)

\* C11: the member lookup of group_present asks group:list for pages of 500
\* at the offsets 0, 500, 1000, ..., at most max_iterations times, and stops
\* at the first page that lists the group.  A group on a page up to
\* max_iterations is found; otherwise the result is False with the comment
\* that the member list could not be found, and no group:adduser or
\* group:removeuser for a user of the lists is issued.
C11_MemberLookupPaging ==
    MemberLookup
      => /\ \A k \in ListCalls :
               /\ ParamVal(last.calls[k].params, "limit") = PyInt(500)
               /\ ParamVal(last.calls[k].params, "offset") = PyInt(500 * (RankOf(k) - 1))
         /\ Cardinality(ListCalls) <= last.args.max_iterations
         /\ PageOfGroup <= last.args.max_iterations
              => /\ Cardinality(ListCalls) = PageOfGroup
                 /\ "could not find the list" \notin
                      {last.ret.comment[k] : k \in 1..Len(last.ret.comment)}
         /\ PageOfGroup > last.args.max_iterations
              => /\ Cardinality(ListCalls) = last.args.max_iterations
                 /\ last.ret.result = "False"
                 /\ "could not find the list" \in
                      {last.ret.comment[k] : k \in 1..Len(last.ret.comment)}
                 /\ GroupChanges \subseteq Issued({"group:add"})

\* the group at position 1200 is found on the third page and gets its member
C11_Witness ==
    /\ MemberLookup
    /\ ~last.test
    /\ inst.gpos[last.args.name] = 1200
    /\ last.args.max_iterations = 3
    /\ Cardinality(ListCalls) = 3
    /\ last.ret.result = "True"
    /\ "users_added" \in DOMAIN last.ret.changes

\* the command line of the k-th invocation of the call
LineOf(k) == last.calls[k].line
IsToken(tok, pre, s) == tok.pre = pre /\ tok.text = PyStr(s)

\* a command is built from the parameters value "hello world" and type
\* "string" and the flag update-only, by occ or by config_system_set
HelloWorldCase ==
    /\ last.calls # <<>>
    /\ \/ /\ last.fn = "occ"
          /\ last.args.parameters
               = <<<<"value", PyStr("hello world")>>, <<"type", PyStr("string")>>>>
          /\ last.args.flags = <<"update-only">>
       \/ /\ last.fn = "config_system_set"
          /\ last.args.value = PyStr("hello world")
          /\ last.args.vtype = "string"
          /\ last.args.update_only

\* the line has --update-only, then --value and its value, then --type and
\* its value; quotedValue and quotedType tell which values stand in quotes
HelloWorldLine(L, quotedValue, quotedType) ==
    \E i, j, m \in 1..(Len(L) - 1) :
        /\ i < j
        /\ j + 1 < m
        /\ IsToken(L[i], "--", "update-only")
        /\ IsToken(L[j], "--", "value")
        /\ IsToken(L[j + 1], "", "hello world")
        /\ L[j + 1].quoted = quotedValue
        /\ IsToken(L[m], "--", "type")
        /\ IsToken(L[m + 1], "", "string")
        /\ L[m + 1].quoted = quotedType

\* C12: a command built with the parameters [("value", "hello world"),
\* ("type", "string")] and the flag update-only has the tokens
\* --update-only, then --value 'hello world', then --type 'string', in this
\* order; the value token stands in single quotes and so does the type
\* token, as every string that does not begin with a double quote.
C12_ValueAndTypeQuoted ==
    HelloWorldCase => HelloWorldLine(LineOf(1), TRUE, TRUE)

\* config_system_set has built such a command
C12_Witness ==
    /\ HelloWorldCase
    /\ last.fn = "config_system_set"
    /\ last.calls[1].cmd = "config:system:set"
    /\ last.calls[1].rc = 0
    /\ Len(LineOf(1)) = 13

\* C12 as the specification has it: the value token is quoted, the type
\* token is not.
C12_TypeTokenUnquoted ==
    HelloWorldCase => HelloWorldLine(LineOf(1), TRUE, FALSE)

\* the flags and the parameters occ hands to the command: those of the
\* caller, then its own
FlagsOfCall == Append(last.args.flags, "no-interaction")
ParamsOfCall ==
    IF last.args.json THEN Append(last.args.parameters, <<"output", PyStr("json")>>)
    ELSE last.args.parameters
ApcOfCall == last.args.ensure_apc = PyBool(TRUE) \/ last.args.ensure_apc = PyNone

\* C13: the command line of a call of occ is php, the pair --define
\* apc.enable_cli=1 exactly when ensure_apc is true (or left to its default,
\* true), ./occ, the sub-command, every flag, every parameter as the pair
\* --name value in the order given and with duplicates kept, the token --,
\* and the arguments in the order given (the entry point being there, so
\* that a command line is built).
C13_CommandLineLayout ==
    (last.fn = "occ" /\ last.pre.has_occ)
      => LET L == LineOf(1)
             a == IF ApcOfCall THEN 2 ELSE 0
             f == a + 3
             p == f + Len(FlagsOfCall)
             s == p + 2 * Len(ParamsOfCall) + 1
         IN /\ Len(last.calls) = 1
            /\ Len(L) = s + Len(last.args.arguments)
            /\ IsToken(L[1], "", "php")
            /\ ApcOfCall => IsToken(L[2], "", "--define") /\ IsToken(L[3], "", "apc.enable_cli=1")
            /\ IsToken(L[a + 2], "", "./occ")
            /\ IsToken(L[a + 3], "", last.args.command)
            /\ \A k \in 1..Len(FlagsOfCall) :
                  L[f + k].text = PyStr(FlagsOfCall[k])
                    /\ L[f + k].pre = (IF FlagsOfCall[k] = "-v" THEN "" ELSE "--")
            /\ \A k \in 1..Len(ParamsOfCall) :
                  /\ IsToken(L[p + 2 * k - 1], "--", ParamsOfCall[k][1])
                  /\ L[p + 2 * k].pre = ""
                  /\ L[p + 2 * k].text = StrOf(ParamsOfCall[k][2])
            /\ IsToken(L[s], "", "--")
            /\ \A k \in 1..Len(last.args.arguments) :
                  IsToken(L[s + k], "", last.args.arguments[k])

\* app:enable with --groups given three times, twice with the same group,
\* and without the apc pair
C13_Witness ==
    /\ last.fn = "occ"
    /\ last.args.command = "app:enable"
    /\ last.args.ensure_apc = PyBool(FALSE)
    /\ ~last.args.json
    /\ Len(LineOf(1)) = 13
    /\ IsToken(LineOf(1)[6], "--", "groups") /\ IsToken(LineOf(1)[7], "", "g2")
    /\ IsToken(LineOf(1)[8], "--", "groups") /\ IsToken(LineOf(1)[9], "", "g1")
    /\ IsToken(LineOf(1)[10], "--", "groups") /\ IsToken(LineOf(1)[11], "", "g2")

\* C14: when occ is called with raise_error true and expect_error false and
\* the command exits with a code other than 0, occ raises
\* CommandExecutionError, whose message carries what the command wrote, and
\* returns nothing.
C14_FailureRaises ==
    (/\ last.fn = "occ"
     /\ last.args.raise_error
     /\ ~last.args.expect_error
     /\ last.calls # <<>>
     /\ last.calls[1].rc # 0)
      => /\ last.exc = "CommandExecutionError"
         /\ last.msg = last.calls[1].stdout
         /\ last.val = FALSE

\* reading a system setting that is not there fails and raises
C14_Witness ==
    /\ last.fn = "occ"
    /\ last.args.command = "config:system:get"
    /\ last.args.raise_error
    /\ ~last.args.expect_error
    /\ last.env.fail = 0
    /\ last.calls # <<>>
    /\ last.calls[1].rc # 0
    /\ last.exc = "CommandExecutionError"

StateFunctions == SimpleStates \cup {"group_present", "app_installed", "config_imported"}

\* the invocations of the call that change the installation: all but the
\* reads and the existence probe of group_exists
Mutations ==
    {k \in Issued(MutatingCmds \cup {"group:add", "group:adduser", "group:removeuser",
                                     "app:install", "app:enable", "app:disable",
                                     "config:import"}) :
        ~(last.calls[k].cmd = "group:removeuser" /\ last.calls[k].args[2] = Sentinel)}

\* the sub-commands an entry of the changes of the call may stand for
DescribedBy(key) ==
    CASE last.fn = "installed" -> {"maintenance:install"}
      [] last.fn = "uptodate" -> {"updater"}
      [] last.fn = "app_removed" -> {"app:remove"}
      [] last.fn = "config_set" -> {"config:system:set"}
      [] last.fn = "config_absent" -> {"config:system:delete"}
      [] last.fn = "group_absent" -> {"group:delete"}
      [] last.fn = "user_absent" -> {"user:delete"}
      [] last.fn = "user_present" ->
           IF key = "created" THEN {"user:add"}
           ELSE IF key = "enabled" THEN {"user:enable"} ELSE {"user:disable"}
      [] last.fn = "group_present" ->
           IF key = "group_created" THEN {"group:add"}
           ELSE IF key = "users_added" THEN {"group:adduser"} ELSE {"group:removeuser"}
      [] last.fn = "app_installed" ->
           IF key = "installed" THEN {"app:install"}
           ELSE IF key = "disabled" THEN {"app:install", "app:disable"}
           ELSE IF key = "enabled" THEN {"app:install", "app:enable"}
           ELSE {"app:enable"}
      [] OTHER -> {"config:import"}

\* the users an entry of the changes of group_present lists
ListedUsers(key) ==
    IF last.fn = "group_present" /\ key \in {"users_added", "users_removed"}
    THEN {last.ret.changes[key][k] : k \in 1..Len(last.ret.changes[key])}
    ELSE {}

\* C15: a state function returns result True with non-empty changes only
\* when every invocation that changes the installation has exited with
\* code 0 and, for every entry of the changes, a sub-command the entry
\* stands for is among them (for every user listed as added or removed,
\* the invocation that names the user).  When such an invocation fails, or
\* the mutating function rejects the call, the result returned is False.
C15_ChangedOnlyAfterSuccess ==
    last.fn \in StateFunctions
      => /\ (last.ret.result = "True" /\ DOMAIN last.ret.changes # {})
              => /\ \A k \in Mutations : last.calls[k].rc = 0
                 /\ \A key \in DOMAIN last.ret.changes :
                       /\ Mutations \cap Issued(DescribedBy(key)) # {}
                       /\ \A u \in ListedUsers(key) :
                             \E k \in Mutations \cap Issued(DescribedBy(key)) :
                                 last.calls[k].args = <<last.args.name, u>>
         /\ (last.exc = "none" /\ \E k \in Mutations : last.calls[k].rc # 0)
              => last.ret.result = "False"
         /\ (/\ last.fn = "installed"
             /\ ~last.test
             /\ NoFault
             /\ ~last.pre.installed
             /\ last.args.admin_pass = PyNone)
              => (last.ret.result = "False" /\ Mutations = {})

\* an app is installed and then enabled for a group: three invocations
\* that change the installation, all successful, before True is returned
C15_Witness ==
    /\ last.fn = "app_installed"
    /\ ~last.test
    /\ last.pre.apps[last.args.name].st = "absent"
    /\ last.ret.result = "True"
    /\ DOMAIN last.ret.changes = {"installed", "enabled", "enabled_for"}
    /\ Cardinality(Mutations) = 3
    /\ inst.apps[last.args.name] = [st |-> "enabled", groups |-> {"g1"}]

\* C16: a real run of user_present that creates a missing account and also
\* changes its enabled status returns changes with both the creation and
\* the change of the status.
C16_WholeDeltaReported ==
    (/\ last.fn = "user_present"
     /\ ~last.test
     /\ last.pre.users[last.args.name] = "absent"
     /\ \E k \in Issued({"user:add"}) : last.calls[k].rc = 0
     /\ \E k \in Issued({"user:enable", "user:disable"}) : last.calls[k].rc = 0
     /\ last.exc = "none")
      => /\ "created" \in DOMAIN last.ret.changes
         /\ DOMAIN last.ret.changes \cap {"enabled", "disabled"} # {}

\* the group set app_installed is asked for, and the one the app was
\* enabled for when the call began (none: enabled for everyone)
WantedGroups == {last.args.groups[k] : k \in 1..Len(last.args.groups)}
CurrentGroups == last.pre.apps[last.args.name].groups

\* a real run of app_installed on an app that is enabled, for another
\* group set than the one asked for
GroupSetDiffers ==
    /\ last.fn = "app_installed"
    /\ ~last.test
    /\ last.args.enabled
    /\ last.pre.apps[last.args.name].st = "enabled"
    /\ WantedGroups # CurrentGroups

\* C17: when the app is enabled for another group set than the desired
\* one, every app:enable of a real run comes after a successful
\* app:disable and names the desired groups, and the changes of a
\* successful run report enabled_for = desired - current and
\* disabled_for = current - desired (an empty difference is not reported),
\* both taken from the state the call has read before the cycle.
C17_DisableBeforeEnable ==
    GroupSetDiffers
      => /\ \A e \in Issued({"app:enable"}) :
               /\ \E d \in Issued({"app:disable"}) : d < e /\ last.calls[d].rc = 0
               /\ \A d \in Issued({"app:disable"}) : d < e
               /\ last.calls[e].params =
                    [k \in 1..Len(last.args.groups) |->
                        <<"groups", PyStr(last.args.groups[k])>>]
         /\ NoFault
              => /\ Issued({"app:enable"}) # {}
                 /\ last.ret.result = "True"
                 /\ inst.apps[last.args.name] = [st |-> "enabled", groups |-> WantedGroups]
         /\ last.ret.result = "True"
              => /\ DOMAIN last.ret.changes =
                      {"enabled"}
                        \cup (IF WantedGroups \ CurrentGroups # {}
                              THEN {"enabled_for"} ELSE {})
                        \cup (IF CurrentGroups \ WantedGroups # {}
                              THEN {"disabled_for"} ELSE {})
                 /\ \A key \in DOMAIN last.ret.changes :
                       /\ key = "enabled_for"
                            => last.ret.changes[key] = WantedGroups \ CurrentGroups
                       /\ key = "disabled_for"
                            => last.ret.changes[key] = CurrentGroups \ WantedGroups

\* an app enabled for g2 is enabled for g1 instead
C17_Witness ==
    /\ GroupSetDiffers
    /\ CurrentGroups = {"g2"}
    /\ last.args.groups = <<"g1">>
    /\ last.ret.result = "True"
    /\ last.ret.changes["enabled_for"] = {"g1"}
    /\ last.ret.changes["disabled_for"] = {"g2"}
    /\ Issued({"app:disable"}) = {3}
    /\ Issued({"app:enable"}) = {4}
    /\ inst.apps[last.args.name].groups = {"g1"}

\* the app is enabled when invocation k is made: it was when the call
\* began, or the call has installed it in enabled state before
EnabledAt(k) ==
    \/ last.pre.apps[last.args.name].st = "enabled"
    \/ \E j \in Issued({"app:install"}) :
          /\ j < k
          /\ last.calls[j].rc = 0
          /\ \A f \in 1..Len(last.calls[j].flags) : last.calls[j].flags[f] # "keep-disabled"

\* C18: a real run of app_installed issues exactly the mutating
\* invocations its delta requires: app:install only when the app is not
\* installed; app:disable only when the app is enabled and must be
\* disabled or re-enabled for another group set; app:enable only when the
\* app must end enabled and is not already enabled for the desired groups;
\* none of them when everything matches.
C18_OnlyRequiredInvocations ==
    (last.fn = "app_installed" /\ ~last.test /\ NoFault)
      => /\ Issued({"app:install"}) # {} <=> last.pre.apps[last.args.name].st = "absent"
         /\ \A k \in Issued({"app:disable"}) :
               /\ EnabledAt(k)
               /\ ~last.args.enabled \/ WantedGroups # CurrentGroups
         /\ \A k \in Issued({"app:enable"}) :
               /\ last.args.enabled
               /\ ~(last.pre.apps[last.args.name].st = "enabled"
                      /\ WantedGroups = CurrentGroups)
         /\ ~AppDiffers => Issued({"app:install", "app:disable", "app:enable"}) = {}




\* the functions that are handed a password
PasswordFunctions ==
    {"install", "user_add", "user_resetpassword", "user_add_app_password", "db_convert_type"}

\* the passwords the call could use: the ones given directly and the ones
\* of the pillar
Secrets ==
    {last.args[f] : f \in DOMAIN last.args \cap {"database_pass", "admin_pass", "password"}}
      \cup {last.env.pillar[k] : k \in PillarKeys}

\* the password the call has to use, given directly under the name direct
\* or as a pillar key under the name pillar
Effective(direct, pillar) ==
    IF Truthy(last.args[pillar]) THEN last.env.pillar[last.args[pillar].s]
    ELSE last.args[direct]

\* the texts of the command line of invocation k, with the arguments,
\* parameter values and flags it was built from
TextsOf(k) ==
    {last.calls[k].line[n].text : n \in 1..Len(last.calls[k].line)}
      \cup {PyStr(last.calls[k].args[n]) : n \in 1..Len(last.calls[k].args)}
      \cup {last.calls[k].params[n][2] : n \in 1..Len(last.calls[k].params)}
      \cup {PyStr(last.calls[k].flags[n]) : n \in 1..Len(last.calls[k].flags)}

\* the variable of the environment and the sub-command of a function that
\* hands its password over in the environment
PasswordVariable ==
    [user_add |-> [cmd |-> "user:add", var |-> "OC_PASS"],
     user_resetpassword |-> [cmd |-> "user:resetpassword", var |-> "OC_PASS"],
     user_add_app_password |-> [cmd |-> "user:add-app-password", var |-> "NC_PASS"]]

\* C19: no password, given directly or held by the pillar, is a token of a
\* command line that install, user_add, user_resetpassword,
\* user_add_app_password or db_convert_type builds.  The password reaches
\* the tool in the environment (NC_DB_PASS and NC_ADMIN_PASS for install,
\* OC_PASS for user_add and user_resetpassword, NC_PASS for
\* user_add_app_password) or on stdin (db_convert_type), and nowhere else.
C19_SecretsOffCommandLine ==
    last.fn \in PasswordFunctions
      => \A k \in 1..Len(last.calls) :
            /\ TextsOf(k) \cap (Secrets \ {PyNone}) = {}
            /\ last.calls[k].cmd = "maintenance:install"
                 => /\ last.calls[k].env["NC_ADMIN_PASS"]
                         = Effective("admin_pass", "admin_pass_pillar")
                    /\ "NC_DB_PASS" \in DOMAIN last.calls[k].env
                         => last.calls[k].env["NC_DB_PASS"]
                              = Effective("database_pass", "database_pass_pillar")
                    /\ "NC_DB_PASS" \in DOMAIN last.calls[k].env
                         <=> (Truthy(last.args.database)
                                /\ last.args.database # PyStr("sqlite"))
                    /\ last.calls[k].stdin = Missing
            /\ last.calls[k].cmd = "db:convert-type"
                 => /\ last.calls[k].stdin = Effective("password", "password_pillar")
                    /\ last.calls[k].stdin \in Secrets \ {PyNone}
                    /\ last.calls[k].env = <<>>
            /\ last.fn \in DOMAIN PasswordVariable
                 => /\ last.calls[k].cmd = PasswordVariable[last.fn].cmd
                    /\ last.calls[k].env =
                         [v \in {PasswordVariable[last.fn].var} |->
                             Effective("password", "password_pillar")]
                    /\ last.calls[k].stdin = Missing
            /\ last.calls[k].cmd \notin {"maintenance:install", "db:convert-type"}
                                          \cup {PasswordVariable[f].cmd :
                                                   f \in DOMAIN PasswordVariable}
                 => (last.calls[k].env = <<>> /\ last.calls[k].stdin = Missing)

\* an installation on an external database: the password of the database
\* is given directly, the administrator's comes from the pillar
C19_Witness ==
    /\ last.fn = "install"
    /\ last.exc = "none"
    /\ last.args.database = PyStr("mysql")
    /\ last.args.database_pass_pillar = PyNone
    /\ last.args.admin_pass_pillar = PyStr("nextcloud:admin")
    /\ \E k \in Issued({"maintenance:install"}) :
          /\ last.calls[k].rc = 0
          /\ last.calls[k].env["NC_DB_PASS"] = PyStr("db secret")
          /\ last.calls[k].env["NC_ADMIN_PASS"] = PyStr("pillar secret")
          /\ \E n \in 1..Len(last.calls[k].line) :
                last.calls[k].line[n].text = PyStr("\"$NC_ADMIN_PASS\"")
    /\ inst.installed

\* the call is malformed: a required password is given neither directly
\* nor by a pillar key, a parameter has a value outside its enumeration, or
\* two parameters conflict
Malformed ==
    \/ /\ last.fn = "install"
       /\ \/ /\ Truthy(last.args.database)
             /\ last.args.database # PyStr("sqlite")
             /\ last.args.database_pass = PyNone
             /\ last.args.database_pass_pillar = PyNone
          \/ last.args.admin_pass = PyNone /\ last.args.admin_pass_pillar = PyNone
    \/ /\ last.fn = "db_convert_type"
       /\ \/ last.args.dbtype \notin {"mysql", "pgsql", "oci"}
          \/ last.args.dbtype = "oci" /\ last.args.clear_schema
          \/ last.args.password = PyNone /\ last.args.password_pillar = PyNone
    \/ /\ last.fn = "user_add"
       /\ last.args.password = PyNone
       /\ last.args.password_pillar = PyNone
    \/ /\ last.fn = "log_manage"
       /\ \/ last.args.backend \notin {"", "file", "syslog", "errorlog", "systemd"}
          \/ last.args.level \notin {"", "debug", "info", "warning", "error", "fatal"}
    \/ /\ last.fn = "config_system_set"
       /\ last.args.vtype \notin {"string", "integer", "double", "boolean"}

\* C20: install, db_convert_type, user_add, log_manage and
\* config_system_set reject a malformed call (a missing password
\* reference, a value outside an enumeration, oci with clear_schema)
\* before they run any external command.
C20_RejectedBeforeAnyCommand ==
    Malformed => (last.exc # "none" /\ last.calls = <<>>)

\* C21: when the status command that installed reads the installation
\* with exits non-zero, installed returns result False with the failure in
\* its comment and reports no installation, pending or performed, in test
\* mode and in real mode alike.
C21_FailedReadIsReported ==
    (/\ last.fn = "installed"
     /\ last.calls # <<>>
     /\ last.calls[1].cmd = "status"
     /\ last.calls[1].rc # 0)
      => /\ last.ret.result = "False"
         /\ last.calls[1].stdout \in {last.ret.comment[k] : k \in 1..Len(last.ret.comment)}
         /\ last.ret.changes = NoChanges
         /\ Issued({"maintenance:install"}) = {}

\* the first config:import of the call, 0 when there is none
FirstImport ==
    IF Issued({"config:import"}) = {} THEN 0
    ELSE CHOOSE k \in Issued({"config:import"}) : \A j \in Issued({"config:import"}) : k <= j

\* C22: when the config:import that config_imported issues for the desired
\* configuration fails, the call returns result False with the message of
\* that failure in its comment, whatever the consistency check finds
\* afterwards, and issues no config:import after the failed one.
C22_ImportFailureIsKept ==
    (/\ last.fn = "config_imported"
     /\ FirstImport # 0
     /\ last.calls[FirstImport].rc # 0)
      => /\ last.exc = "none"
         /\ last.ret.result = "False"
         /\ last.calls[FirstImport].stdout
              \in {last.ret.comment[k] : k \in 1..Len(last.ret.comment)}
         /\ Issued({"config:import"}) = {FirstImport}

\* C23: with force set, config_imported runs the consistency check only
\* before it reads the configuration, never after the import, and rolls
\* nothing back: at most one config:import is issued (none in a dry run)
\* and no deletion, and what the import or the dry-run report came to is
\* what is returned.
C23_ForceSkipsCheckAndRollback ==
    (last.fn = "config_imported" /\ last.args.force)
      => /\ Issued({"check"}) \subseteq {1}
         /\ Cardinality(Issued({"config:import"})) <= 1
         /\ Issued({"config:system:delete", "config:app:delete"}) = {}
         /\ last.test => Issued({"config:import"}) = {} /\ inst = last.pre
         /\ last.exc = "none"
         /\ \A k \in Issued(MutatingCmds \cup {"config:import"}) :
               last.calls[k].rc # 0
                 => /\ last.ret.result = "False"
                    /\ k = Len(last.calls)
         /\ (\E k \in Issued({"config:import"}) : TRUE)
              /\ (\A k \in 1..Len(last.calls) : last.calls[k].rc = 0 \/ k = 1)
              => (last.ret.result = "True" /\ DOMAIN last.ret.changes = {"added", "changed"})

\* a forced import on an installation whose check would find errors after
\* it: the one check is the one before the import
C23_Witness ==
    /\ last.fn = "config_imported"
    /\ last.args.force
    /\ ~last.test
    /\ last.env.checks = <<TRUE, FALSE>>
    /\ Issued({"check"}) = {1}
    /\ Cardinality(Issued({"config:import"})) = 1
    /\ last.ret.result = "True"
    /\ last.ret.changes["added"] # {}
    /\ inst # last.pre

\* what the update:check of the call has printed
Report == last.calls[1].stdout

\* the entries of the report are as many as its count line says
ReportAddsUp ==
    /\ Report.count # <<>>
    /\ Len(Report.system) + Len(Report.apps) = Report.count[1]

\* C24: unless the output of update:check says that everything is up to
\* date, update_check returns a result only when the number of parsed
\* entries (core release plus app updates) equals the count the output
\* reports; when the count line is missing or the numbers differ it raises
\* CommandExecutionError.
C24_UpdateCheckCrossValidates ==
    (/\ last.fn = "update_check"
     /\ last.calls # <<>>
     /\ last.calls[1].rc = 0)
      => /\ Report.uptodate => (last.exc = "none" /\ last.val.Nextcloud = NoVersion)
         /\ (~Report.uptodate /\ ReportAddsUp)
              => /\ last.exc = "none"
                 /\ last.val.Nextcloud = last.pre.update
         /\ (~Report.uptodate /\ ~ReportAddsUp) => last.exc = "CommandExecutionError"

\* a core release and an app update are on offer, and the count line says
\* three
C24_Witness ==
    /\ last.fn = "update_check"
    /\ Len(last.calls) = 1
    /\ last.calls[1].rc = 0
    /\ Len(Report.system) = 1
    /\ Len(Report.apps) = 1
    /\ Report.count = <<3>>
    /\ last.exc = "CommandExecutionError"

\* max_version names a major version only, or a major and a minor version
PartialVersion ==
    last.args.max_version \in {PyInt(23), PyStr("23"), PyFloat(230), PyStr("23.0")}

\* what the call made of the installation: up to date, or not (and then an
\* update that uptodate applied or, in a dry run, announced)
TakenUptodate ==
    IF last.fn = "is_uptodate" THEN last.exc = "none" /\ last.val = TRUE
    ELSE /\ last.ret.result = "True"
         /\ last.ret.changes = NoChanges
         /\ Issued({"updater"}) = {}
         /\ inst = last.pre
TakenOutdated ==
    IF last.fn = "is_uptodate" THEN last.exc = "none" /\ last.val = FALSE
    ELSE IF last.test
         THEN last.ret.result = "None" /\ "upgraded" \in DOMAIN last.ret.changes
    ELSE /\ last.ret.result = "True"
         /\ Issued({"updater"}) # {}
         /\ inst.version = last.pre.update

\* C25: with max_version naming a major version (23, as an integer or as
\* a string) or a major.minor version (23.0), is_uptodate and uptodate
\* take an update to 23.0.4 as not up to date (uptodate applies it) and an
\* update to 24.0.0 as up to date (uptodate does not apply it); without a
\* core update the installation is up to date whatever max_version is.
C25_VersionRestriction ==
    (/\ last.fn \in {"is_uptodate", "uptodate"}
     /\ NoFault
     /\ last.pre.report.count = "right")
      => /\ last.pre.update = NoVersion => TakenUptodate
         /\ (PartialVersion /\ last.pre.update = <<23, 0, 4>>) => TakenOutdated
         /\ (PartialVersion /\ last.pre.update = <<24, 0, 0>>) => TakenUptodate

\* the sub-commands that are handed a password
PasswordCmds ==
    {"maintenance:install", "user:add", "user:resetpassword", "user:add-app-password",
     "db:convert-type"}

\* the pillar has no value under the key the argument named pillar gives
Unset(pillar) ==
    /\ Truthy(last.args[pillar])
    /\ last.env.pillar[last.args[pillar].s] = PyNone

\* the call names a pillar key for a password it needs, and the lookup
\* returns no value
LookupFails ==
    IF last.fn = "install"
    THEN \/ Unset("admin_pass_pillar")
         \/ /\ Truthy(last.args.database)
            /\ last.args.database # PyStr("sqlite")
            /\ Unset("database_pass_pillar")
    ELSE Unset("password_pillar")

\* C26: when the pillar has no value under the key that install, user_add,
\* user_resetpassword, user_add_app_password or db_convert_type is given
\* for a password, the function raises an error and issues none of the
\* commands that take the password: neither an empty password nor the
\* password given directly is used in its place.
C26_MissingPillarIsFatal ==
    (last.fn \in PasswordFunctions /\ LookupFails)
      => /\ last.exc # "none"
         /\ Issued(PasswordCmds) = {}
         /\ inst = last.pre
         /\ \A k \in 1..Len(last.calls) :
               last.calls[k].env = <<>> /\ last.calls[k].stdin = Missing

\* user_resetpassword is given a password and a pillar key, and the pillar
\* has no such key
C26_Witness ==
    /\ last.fn = "user_resetpassword"
    /\ last.args.password = PyStr("user secret")
    /\ last.args.password_pillar = PyStr("nextcloud:user")
    /\ last.env.pillar["nextcloud:user"] = PyNone
    /\ last.pre.users[last.args.user_id] = "enabled"
    /\ last.exc = "CommandExecutionError"
    /\ last.calls = <<>>

\* C27: files_repair_tree called with dry_run=True runs files:repair-tree
\* with the flag --dry-run, so that the file tree is left as it was.
C27_DryRunRepairsNothing ==
    (last.fn = "files_repair_tree" /\ last.args.dry_run)
      => /\ \A k \in Issued({"files:repair-tree"}) :
               /\ \E j \in 1..Len(last.calls[k].flags) : last.calls[k].flags[j] = "dry-run"
               /\ \E n \in 1..Len(LineOf(k)) : IsToken(LineOf(k)[n], "--", "dry-run")
         /\ inst.tree = last.pre.tree

\* the flag tokens of the command line of invocation k: the ones after the
\* sub-command, one for each flag
FlagTokens(k) ==
    LET o == CHOOSE n \in 1..Len(LineOf(k)) : IsToken(LineOf(k)[n], "", "./occ")
    IN [j \in 1..Len(last.calls[k].flags) |-> LineOf(k)[o + 1 + j]]

\* the token as it is printed starts with a hyphen
StartsWithHyphen(tok) == tok.pre = "--" \/ tok.text.s \in Hyphened

\* C30: every flag token of a command line built by occ starts with a
\* hyphen: a flag name without a leading hyphen is printed with -- before
\* it, a flag name that starts with a hyphen (-v, -vv, -vvv) as it is.
C30_FlagsStartWithHyphen ==
    \A k \in 1..Len(last.calls) :
        \A j \in 1..Len(last.calls[k].flags) :
            LET tok == FlagTokens(k)[j]
                f == last.calls[k].flags[j]
            IN /\ StartsWithHyphen(tok)
               /\ tok.text = PyStr(f)
               /\ ~tok.quoted
               /\ tok.pre = (IF f \in Hyphened THEN "" ELSE "--")

\* preview_repair with verbosity 2: --batch --dry -vv --no-interaction
C30_Witness ==
    /\ last.fn = "preview_repair"
    /\ last.args.verbosity = 2
    /\ last.args.dry_run
    /\ ~last.args.delete
    /\ Len(last.calls) = 1
    /\ last.calls[1].flags = <<"batch", "dry", "-vv", "no-interaction">>
    /\ IsToken(FlagTokens(1)[1], "--", "batch")
    /\ IsToken(FlagTokens(1)[3], "", "-vv")
    /\ IsToken(FlagTokens(1)[4], "--", "no-interaction")

\* the type tag that goes with a value: boolean for a boolean, integer
\* for an integer, double for a floating-point number, string otherwise
TagOf(value) ==
    CASE value.t = "bool" -> "boolean"
      [] value.t = "int" -> "integer"
      [] value.t = "float" -> "double"
      [] OTHER -> "string"

\* C28: config_set without a vtype passes the type tag that goes with the
\* desired value to config:system:set as --type; with a vtype that is none
\* of string, integer, double and boolean it returns result False and runs
\* no command.
C28_TypeTagOfValue ==
    (last.fn = "config_set" /\ "vtype" \in DOMAIN last.args)
      => /\ last.args.vtype = ""
              => \A k \in Issued({"config:system:set"}) :
                    ParamVal(last.calls[k].params, "type") = PyStr(TagOf(last.args.value))
         /\ last.args.vtype \notin {"", "string", "integer", "double", "boolean"}
              => (last.ret.result = "False" /\ last.calls = <<>>)

\* C29: when the installation root holds no occ entry point, occ raises
\* SaltInvocationError and no command is run, whatever the sub-command, its
\* arguments, parameters and flags and the keyword arguments are; the
\* functions that go through occ run no command either.
C29_NoEntryPointNoCommand ==
    (last.fn # "none" /\ ~last.pre.has_occ)
      => /\ last.calls = <<>>
         /\ inst = last.pre
         /\ last.fn = "occ" => last.exc = "SaltInvocationError"

\* occ is called for a command whose failure it was told to expect and
\* not to raise
C29_Witness ==
    /\ last.fn = "occ"
    /\ ~last.pre.has_occ
    /\ last.args.command = "config:system:get"
    /\ last.args.expect_error
    /\ ~last.args.raise_error
    /\ last.exc = "SaltInvocationError"
    /\ last.calls = <<>>

\* the positions of the command line of invocation k where the parameter
\* --output stands, and those where it is followed by the quoted value json
OutputTokens(k) == {j \in 1..Len(LineOf(k)) : IsToken(LineOf(k)[j], "--", "output")}
OutputJson(k) ==
    {j \in OutputTokens(k) :
        /\ j < Len(LineOf(k))
        /\ LineOf(k)[j + 1] = Token("", PyStr("json"), TRUE)}

\* C31: a call of occ with json true puts the parameter output=json on the
\* command line exactly once, the caller not having supplied it, and what it
\* returns has a parsed payload exactly when the command exited with 0; with
\* json false no output parameter is added and nothing returned has a parsed
\* payload.
C31_JsonParameterAndPayload ==
    (/\ last.fn = "occ"
     /\ last.calls # <<>>
     /\ ParamVal(last.args.parameters, "output") = Missing)
      => /\ last.args.json
            => /\ Cardinality(OutputTokens(1)) = 1
               /\ OutputJson(1) = OutputTokens(1)
               /\ last.exc = "none"
                    => ((last.val.parsed # Missing) <=> (last.calls[1].rc = 0))
         /\ ~last.args.json
            => /\ OutputTokens(1) = {}
               /\ last.exc = "none" => last.val.parsed = Missing

\* status is asked for as json and answers; a json call fails and returns
\* without a payload
C31_Witness ==
    /\ last.fn = "occ"
    /\ last.args.command = "status"
    /\ last.args.json
    /\ last.exc = "none"
    /\ last.calls # <<>>
    /\ last.calls[1].rc = 0
    /\ last.val.parsed # Missing
    /\ Cardinality(OutputJson(1)) = 1

\* C32: a call of occ with expect_error true never raises for an exit code
\* other than 0, whatever raise_error is: it returns the exit code and the
\* standard output of the command as they are.  user_exists answers True for
\* exit code 0, False for another exit code with "user not found" on the
\* standard output, and raises for every other exit code.
C32_ExpectedErrorIsReturned ==
    /\ (/\ last.fn = "occ"
        /\ last.args.expect_error
        /\ last.calls # <<>>
        /\ last.calls[1].rc # 0)
         => /\ last.exc = "none"
            /\ last.val.retcode = last.calls[1].rc
            /\ last.val.stdout = last.calls[1].stdout
    /\ (last.fn = "user_exists" /\ last.calls # <<>>)
         => /\ Len(last.calls) = 1
            /\ last.calls[1].cmd = "user:info"
            /\ last.calls[1].rc = 0 => last.exc = "none" /\ last.val = TRUE
            /\ (last.calls[1].rc # 0 /\ last.calls[1].stdout = "user not found")
                 => last.exc = "none" /\ last.val = FALSE
            /\ (last.calls[1].rc # 0 /\ last.calls[1].stdout # "user not found")
                 => last.exc = "CommandExecutionError"

\* user_exists is asked for an account that is not there: the command exits
\* with 1 and the answer is False
C32_Witness ==
    /\ last.fn = "user_exists"
    /\ last.calls # <<>>
    /\ last.calls[1].rc # 0
    /\ last.calls[1].stdout = "user not found"
    /\ last.exc = "none"
    /\ last.val = FALSE

\* the same state function called again with the arguments of the call, for
\* real, on the installation the call left, no command failing for a reason
\* of its own and the consistency checks passing
QuietEnv == [fail |-> 0, checks |-> <<>>, file |-> last.env.file]
Again ==
    LET c == Context(inst, QuietEnv)
        a == last.args
    IN CASE last.fn = "installed" -> installed(c, a.admin_pass, FALSE, NoTarget)
         [] last.fn = "uptodate" -> uptodate(c, a.max_version, a.no_backup, TRUE, FALSE, NoTarget)
         [] last.fn = "app_removed" -> app_removed(c, a.name, FALSE, NoTarget)
         [] last.fn = "config_set" -> config_set(c, a.name, a.value, "", ":", FALSE, NoTarget)
         [] last.fn = "config_absent" -> config_absent(c, a.name, ":", FALSE, NoTarget)
         [] last.fn = "group_absent" -> group_absent(c, a.name, FALSE, NoTarget)
         [] last.fn = "user_absent" -> user_absent(c, a.name, FALSE, NoTarget)
         [] last.fn = "user_present" ->
              user_present(c, a.name, a.enabled, a.init_password, FALSE, NoTarget)
         [] last.fn = "group_present" ->
              group_present(c, a.name, a.addusers, a.delusers, a.max_iterations, FALSE,
                            NoTarget)
         [] last.fn = "app_installed" ->
              app_installed(c, a.name, a.force, a.enabled, a.groups, FALSE, FALSE, NoTarget)
         [] last.fn = "config_imported" ->
              config_imported(c, "f1", a.config, a.force, FALSE, NoTarget)

\* the invocations among calls that change the installation
MutatingIn(calls) ==
    {k \in 1..Len(calls) :
        /\ calls[k].cmd \in MutatingCmds \cup {"group:add", "group:adduser",
                                               "group:removeuser", "app:install",
                                               "app:enable", "app:disable", "config:import"}
        /\ ~(calls[k].cmd = "group:removeuser" /\ calls[k].args[2] = Sentinel)}

\* a real run that returned True with changes, every invocation of it having
\* exited with 0
Converged ==
    /\ last.fn \in StateFunctions
    /\ ~last.test
    /\ last.ret.result = "True"
    /\ DOMAIN last.ret.changes # {}
    /\ \A k \in 1..Len(last.calls) : last.calls[k].rc = 0

\* C33: after a real run of a state function that returned result True with
\* changes and whose invocations all succeeded, the same call repeated at
\* once on the installation it left issues no mutating invocation and
\* returns result True without changes.
C33_RepeatedCallChangesNothing ==
    Converged
      => /\ ~Raised(Again)
         /\ Again.val.result = "True"
         /\ DOMAIN Again.val.changes = {}
         /\ MutatingIn(Again.ctx.calls) = {}

\* C34: a call of a state function reads before it changes anything: every
\* mutating invocation of the call comes after an invocation of the same
\* call that only reads, and a real run whose reads do not fail mutates only
\* when the installation as it is at the start of this call differs from
\* the desired state, whatever earlier calls have met.
C34_FreshReadBeforeMutation ==
    last.fn \in StateFunctions
      => /\ \A k \in Mutations : \E j \in 1..(k - 1) : j \notin Mutations
         /\ (last.fn \in SimpleStates /\ NoFault /\ Mutations # {}) => ~AlreadyDesired

\* user_absent deletes an account of an installation that is not installed:
\* an earlier call of user_present, which found no account, has created it
C34_Witness ==
    /\ last.fn = "user_absent"
    /\ ~last.test
    /\ ~last.pre.installed
    /\ last.pre.users[last.args.name] = "enabled"
    /\ Len(last.calls) = 2
    /\ last.calls[1].cmd = "user:info"
    /\ Mutations = {2}
    /\ last.ret.result = "True"

(***************************************************************************)
(* State functions called with a webroot and a webuser of their own.  The  *)
(* model has one installation; each invocation records the directory it    *)
(* was run in and the account it was run as.                               *)
(***************************************************************************)
Targets == {NoTarget, [webroot |-> "/srv/nextcloud", webuser |-> "apache"]}

InitTarget ==
    /\ inst \in ConfigInsts \cup AppInsts \cup UserInsts
    /\ last = NoCall

ConfigSetAt ==
    \E value \in Values, tgt \in Targets, test \in BOOLEAN, env \in OccEnvs :
        StateCall("config_set",
                  [name |-> <<"k1">>, value |-> value, webroot |-> tgt.webroot,
                   webuser |-> tgt.webuser],
                  test, env,
                  config_set(Context(inst, env), <<"k1">>, value, "", ":", test, tgt))

ConfigAbsentAt ==
    \E tgt \in Targets, test \in BOOLEAN, env \in OccEnvs :
        StateCall("config_absent",
                  [name |-> <<"k1">>, webroot |-> tgt.webroot, webuser |-> tgt.webuser],
                  test, env,
                  config_absent(Context(inst, env), <<"k1">>, ":", test, tgt))

AppInstalledAt ==
    \E name \in Apps, enabled \in BOOLEAN, tgt \in Targets, test \in BOOLEAN, env \in OccEnvs :
        StateCall("app_installed",
                  [name |-> name, force |-> FALSE, enabled |-> enabled, groups |-> <<>>,
                   webroot |-> tgt.webroot, webuser |-> tgt.webuser],
                  test, env,
                  app_installed(Context(inst, env), name, FALSE, enabled, <<>>, FALSE, test,
                                tgt))

AppRemovedAt ==
    \E name \in Apps, tgt \in Targets, test \in BOOLEAN, env \in OccEnvs :
        StateCall("app_removed",
                  [name |-> name, webroot |-> tgt.webroot, webuser |-> tgt.webuser],
                  test, env,
                  app_removed(Context(inst, env), name, test, tgt))

UserPresentAt ==
    \E name \in Users, enabled \in BOOLEAN, tgt \in Targets, test \in BOOLEAN, env \in OccEnvs :
        StateCall("user_present",
                  [name |-> name, enabled |-> enabled, init_password |-> PyStr("pw"),
                   webroot |-> tgt.webroot, webuser |-> tgt.webuser],
                  test, env,
                  user_present(Context(inst, env), name, enabled, PyStr("pw"), test, tgt))

NextTarget ==
    \/ Return
    \/ ConfigSetAt
    \/ ConfigAbsentAt
    \/ AppInstalledAt
    \/ AppRemovedAt
    \/ UserPresentAt

SpecTarget == InitTarget /\ [][NextTarget]_vars

\* the directory and the account the call asks for: those given to it, the
\* configured defaults when none are given
WebrootOfCall == IF last.args.webroot = "" THEN web_root ELSE last.args.webroot
WebuserOfCall == IF last.args.webuser = "" THEN web_user ELSE last.args.webuser

\* C35: every invocation issued during a call of a state function runs in
\* the webroot and as the webuser given to the call, in the configured
\* defaults when none are given.
C35_OneTargetPerCall ==
    last.fn \in StateFunctions
      => \A k \in 1..Len(last.calls) :
            /\ last.calls[k].cwd = WebrootOfCall
            /\ last.calls[k].runas = WebuserOfCall

\* C36: when force is not set and the consistency check that config_imported
\* runs first fails, config_imported returns result False with a comment
\* that says so, and issues nothing after the check: no config:list, no
\* config:import, no deletion.
C36_BrokenInstallationIsLeftAlone ==
    (/\ last.fn = "config_imported"
     /\ ~last.args.force
     /\ last.calls # <<>>
     /\ last.calls[1].cmd = "check"
     /\ last.calls[1].rc # 0)
      => /\ last.ret.result = "False"
         /\ last.ret.comment = <<"reports errors">>
         /\ DOMAIN last.ret.changes = {}
         /\ Len(last.calls) = 1
         /\ inst = last.pre

\* a real run on an installation whose check finds errors, for a setting
\* that is not there yet
C36_Witness ==
    /\ last.fn = "config_imported"
    /\ ~last.args.force
    /\ ~last.test
    /\ last.env.fail = 0
    /\ last.env.checks = <<FALSE>>
    /\ last.args.config = PyDict("system" :> PyDict("k2" :> PyStr("x")))
    /\ last.calls # <<>>
    /\ last.calls[1].rc # 0
    /\ last.ret.result = "False"
    /\ Issued({"config:list", "config:import"}) = {}

\* the consistency checks config_imported ran after its first one, and
\* those among them that failed (the revert reads the version first; when
\* that fails the version is read in another way and nothing is raised)
LaterChecks == {k \in Issued({"check"}) : k > 1}
FailedLaterChecks == {k \in LaterChecks : last.calls[k].rc # 0}

\* C37: when the consistency check that follows the import fails and force
\* is not set, config_imported returns result False, and its comment tells
\* the two outcomes of the revert apart: reverted (added app settings stay)
\* when the revert went through, an exception with its text when the revert
\* raised CommandExecutionError or SaltInvocationError.
C37_RevertOutcomeIsReported ==
    (last.fn = "config_imported" /\ ~last.args.force /\ FailedLaterChecks # {})
      => /\ last.ret.result = "False"
         /\ \A k \in FailedLaterChecks :
               \/ /\ last.ret.comment = <<"reverted most of the changes">>
                  /\ \A j \in (k + 1)..Len(last.calls) :
                        last.calls[j].cmd # "--version" => last.calls[j].rc = 0
               \/ \E j \in (k + 1)..Len(last.calls) :
                     /\ last.calls[j].rc # 0
                     /\ last.ret.comment = <<"tried to revert", last.calls[j].stdout>>

(***************************************************************************)
(* config_import given configurations that mix floats with values of the   *)
(* other kinds.                                                            *)
(***************************************************************************)
PayloadConfigs ==
    {PyDict("system" :> PyDict(("k1" :> PyFloat(5)) @@ ("k2" :> PyNone))),
     PyDict("system" :> PyDict(("k1" :> PyStr("x")) @@ ("k2" :> PyInt(1))
                                 @@ ("k3" :> PyBool(TRUE)) @@ ("k4" :> PyList(1))
                                 @@ ("e" :> PyFloat(5)))),
     PyDict("system" :> PyDict(("sub" :> PyDict(("e" :> PyFloat(15)) @@ ("n" :> PyNone)))
                                 @@ ("plain" :> PyDict("a" :> PyInt(1))))),
     PyDict("system" :> PyDict("sub" :> PyDict(("e" :> PyFloat(15)) @@ ("s" :> PyStr("y"))))),
     PyDict("apps" :> PyDict("a1" :> PyDict(("e" :> PyFloat(5)) @@ ("v" :> PyStr("1.0")))))}

InitPayload ==
    /\ inst \in ImportInsts0
    /\ last = NoCall

ConfigImportData ==
    \E config \in PayloadConfigs, env \in Envs :
        ModuleCall("config_import", [config |-> config], env,
                   config_import(Context(inst, env), config, NoTarget))

NextPayload ==
    \/ Return
    \/ ConfigImportData

SpecPayload == InitPayload /\ [][NextPayload]_vars

\* C38: when the float workaround of config_import applies, the payload of
\* config:import is the configuration given with its floats taken out and
\* nothing else: every key whose value is no float (a string, an integer, a
\* boolean, null, a list, a dictionary without floats) is in the payload
\* with the value it had.
C38_PayloadKeepsAllButFloats ==
    (last.fn = "config_import" /\ WorkaroundApplies)
      => \A k \in Issued({"config:import"}) :
            /\ FloatLeaves(last.calls[k].stdin) = {}
            /\ \A l \in Leaves(last.args.config, <<>>) :
                  l[2].t # "float" => GetPath(last.calls[k].stdin, l[1]) = l[2]

(***************************************************************************)
(* upgrade, called directly and by uptodate, with and without a backup, on *)
(* installations with and without the updater.                             *)
(***************************************************************************)
UpgradeInsts ==
    {[Fresh EXCEPT !.update = u, !.has_updater = h] : u \in Updates, h \in BOOLEAN}

InitUpgrade ==
    /\ inst \in UpgradeInsts
    /\ last = NoCall

Upgrade ==
    \E no_backup \in BOOLEAN, ensure_apc \in {PyNone, PyBool(TRUE), PyBool(FALSE)},
       env \in Envs :
        ModuleCall("upgrade", [no_backup |-> no_backup, ensure_apc |-> ensure_apc], env,
                   upgrade(Context(inst, env), no_backup, ApcOf(ensure_apc), NoTarget))

UptodateNoBackup ==
    \E no_backup \in BOOLEAN, test \in BOOLEAN, env \in Envs :
        StateCall("uptodate", [max_version |-> PyNone, no_backup |-> no_backup],
                  test, env,
                  uptodate(Context(inst, env), PyNone, no_backup, TRUE, test, NoTarget))

NextUpgrade ==
    \/ Return
    \/ Upgrade
    \/ UptodateNoBackup

SpecUpgrade == InitUpgrade /\ [][NextUpgrade]_vars

\* the tokens of the updater command as the call asks for them
UpdaterTokens ==
    <<"php">>
      \o (IF ApcOf(last.args.ensure_apc) THEN <<"--define", "apc.enable_cli=1">> ELSE <<>>)
      \o <<"updater/updater.phar", "--no-interaction">>
      \o (IF last.args.no_backup THEN <<"--no-backup">> ELSE <<>>)

\* C39: the command upgrade runs is made of the tokens php, the pair
\* --define apc.enable_cli=1 exactly when ensure_apc is true, the path of
\* updater.phar, --no-interaction and, exactly when no_backup is true, the
\* one token --no-backup; without updater.phar upgrade raises and runs
\* nothing.
C39_UpdaterCommand ==
    last.fn = "upgrade"
      => /\ ~last.pre.has_updater
              => last.exc = "CommandExecutionError" /\ last.calls = <<>>
         /\ last.pre.has_updater
              => /\ Len(last.calls) = 1
                 /\ last.calls[1].cmd = "updater"
                 /\ last.calls[1].args = UpdaterTokens

\* C40: in test mode, when the existence check finds no account,
\* user_present returns without reading whether the account is enabled (no
\* user:info after the one of the existence check), with result None and
\* the account announced as created; when enabled is False the changes
\* announce in addition that the account would be disabled.
C40_DryRunSkipsStatusOfAbsentUser ==
    (/\ last.fn = "user_present"
     /\ last.test
     /\ last.calls # <<>>
     /\ last.calls[1].rc # 0
     /\ last.calls[1].stdout = "user not found")
      => /\ Len(last.calls) = 1
         /\ last.calls[1].cmd = "user:info"
         /\ last.ret.result = "None"
         /\ last.ret.changes
              = (IF last.args.enabled THEN "created" :> last.args.name
                 ELSE ("created" :> last.args.name) @@ ("disabled" :> last.args.name))
         /\ last.ret.comment
              = (IF last.args.enabled THEN <<"would have been created">>
                 ELSE <<"would have been created", "would have been disabled">>)
         /\ inst = last.pre

\* a dry run for an account that is not there and shall be disabled
C40_Witness ==
    /\ last.fn = "user_present"
    /\ last.test
    /\ ~last.args.enabled
    /\ last.pre.users[last.args.name] = "absent"
    /\ Len(last.calls) = 1
    /\ last.calls[1].stdout = "user not found"
    /\ last.ret.result = "None"
    /\ DOMAIN last.ret.changes = {"created", "disabled"}

====
